---- MODULE Spec2Model ----
(***************************************************************************)
(* Tempest build-tool: the toolchain bootstrapper (internal/build-tool).   *)
(*                                                                         *)
(* One invocation of the build-tool bootstraps one tool: it resolves the   *)
(* configuration (config.toml, downloads.toml, toolchain.toml), decides    *)
(* whether to skip, downloads the archive into the cache, verifies size    *)
(* and SHA-256, extracts it through the tool's filter/transform pair,      *)
(* runs the tool's build commands and records the executable and version   *)
(* in toolchain.toml.                                                      *)
(*                                                                         *)
(* Paths are modelled as the strings the program holds: a flag saying      *)
(* whether the string is absolute and the sequence of its components.  A   *)
(* component is a pair <<name, version>>, so that "flex-" + version is the *)
(* component <<"flex-", version>>.  The file system is the set of          *)
(* absolute, cleaned component sequences at which a regular file or a      *)
(* directory exists.  The build-tool runs with the repository root as its  *)
(* working directory and the toolchain root is <repository>/toolchain      *)
(* (Makefile: TOOLCHAIN_DIR := ./toolchain).                               *)
(***************************************************************************)
EXTENDS Integers, Sequences, FiniteSets, TLC

(***************************************************************************)
(* Path strings (path/filepath).                                           *)
(***************************************************************************)
N(name) == <<name, "">>

DotDot == N("..")

EmptyPath == [abs |-> FALSE, segs |-> <<>>]

RootPath == [abs |-> TRUE, segs |-> <<>>]

Rel(segs) == [abs |-> FALSE, segs |-> segs]

RECURSIVE CleanSegs(_, _, _)
CleanSegs(abs, done, rest) ==
  IF rest = <<>> THEN done
  ELSE IF Head(rest) = DotDot
       THEN IF done # <<>> /\ done[Len(done)] # DotDot
            THEN CleanSegs(abs, SubSeq(done, 1, Len(done) - 1), Tail(rest))
            ELSE IF abs THEN CleanSegs(abs, done, Tail(rest))
                 ELSE CleanSegs(abs, Append(done, DotDot), Tail(rest))
       ELSE CleanSegs(abs, Append(done, Head(rest)), Tail(rest))

Clean(p) == [abs |-> p.abs, segs |-> CleanSegs(p.abs, <<>>, p.segs)]

\* filepath.Join(a, b): empty elements are ignored, the result is cleaned.
Join(a, b) ==
  IF a = EmptyPath THEN (IF b = EmptyPath THEN EmptyPath ELSE Clean(b))
  ELSE Clean([abs |-> a.abs, segs |-> a.segs \o b.segs])

\* The working directory of the build-tool: the repository root.
Cwd == [abs |-> TRUE, segs |-> <<N("repo")>>]

\* filepath.Abs(p).
Abs(p) == IF p.abs THEN Clean(p) ELSE Join(Cwd, p)

\* The place in the file system that the operating system resolves p to.
Resolve(p) == Abs(p).segs

\* filepath.Rel(base, target), for a target below base.
RelTo(base, target) ==
  Rel(SubSeq(Resolve(target), Len(Resolve(base)) + 1, Len(Resolve(target))))

IsUnder(loc, dir) ==
  /\ Len(loc) >= Len(dir)
  /\ SubSeq(loc, 1, Len(dir)) = dir

ensureTrailingSlash(p) == IF p = EmptyPath THEN RootPath ELSE p

Parent(loc) == SubSeq(loc, 1, Len(loc) - 1)

Ancestors(loc) == {SubSeq(loc, 1, n) : n \in 0..Len(loc)}

(***************************************************************************)
(* Tools, versions and the names derived from them.                        *)
(***************************************************************************)
Tools == {"bison", "flex", "capnproto", "gocapnp", "tinygo", "binaryen", "bpfasm"}

\* The tables of toolchain.toml (ToolchainTomlTopLevel).
RegTools == Tools \cup {"go"}

Versions == {"v1", "v2"}

\* The toolchain root as config.toml's ToolChainDirTemplate spells it:
\* relative to the working directory, or absolute.
RelToolChainDir == Rel(<<N("toolchain")>>)

AbsToolChainDir == [abs |-> TRUE, segs |-> <<N("repo"), N("toolchain")>>]

\* The place of the toolchain root in the file system.
ToolChainRoot == <<N("repo"), N("toolchain")>>

\* An executable outside the toolchain that the user names in config.toml.
ExtPresent == [abs |-> TRUE, segs |-> <<N("usr"), N("present")>>]

ExtMissing == [abs |-> TRUE, segs |-> <<N("usr"), N("missing")>>]

\* "<tool>-" + version: the versioned directory of the tool's installation.
VersionedDirPrefix(t) ==
  CASE t = "bison" -> "bison-"
    [] t = "flex" -> "flex-"
    [] t = "capnproto" -> "capnproto-"
    [] t = "gocapnp" -> "go-capnp-"
    [] t = "tinygo" -> "tinygo-"
    [] t = "binaryen" -> "binaryen-"
    [] t = "bpfasm" -> "bpf_asm-"

\* The top-level directory of the tool's archive.
TarDir(t, version) ==
  CASE t = "bison" -> <<"bison-", version>>
    [] t = "flex" -> <<"flex-", version>>
    [] t = "capnproto" -> <<"capnproto-c++-", version>>
    [] t = "gocapnp" -> <<"go-capnp-", version>>
    [] t = "tinygo" -> N("tinygo")
    [] t = "binaryen" -> <<"binaryen-", version>>
    [] t = "bpfasm" -> <<"linux-", version>>

\* The directory, below the build directory, in which the build command runs.
BuildSubDir(t) ==
  CASE t = "gocapnp" -> <<N("capnpc-go")>>
    [] t = "bpfasm" -> <<N("tools"), N("bpf")>>
    [] OTHER -> <<>>

\* The file that the build command needs in the directory it runs in.
BuildInput(t) ==
  CASE t \in {"bison", "flex", "capnproto"} -> N("configure")
    [] t = "gocapnp" -> N("main.go")
    [] OTHER -> N("Makefile")

\* The executable relative to the installation directory.
BinaryPath(t) ==
  CASE t = "bison" -> <<N("tests"), N("bison")>>
    [] t = "flex" -> <<N("src"), N("flex")>>
    [] t = "capnproto" -> <<N("capnp")>>
    [] t = "gocapnp" -> <<N("capnpc-go"), N("capnpc-go")>>
    [] t = "tinygo" -> <<N("bin"), N("tinygo")>>
    [] t = "binaryen" -> <<N("bin"), N("wasm-opt")>>
    [] t = "bpfasm" -> <<N("tools"), N("bpf"), N("bpf_asm")>>

HasConfigure(t) == t \in {"bison", "flex", "capnproto"}

HasBuild(t) == t \notin {"tinygo", "binaryen"}

(***************************************************************************)
(* toolchain.toml: the persisted registry (toolchain.go).                  *)
(***************************************************************************)
\* A nil *ToolchainTomlTool.
NilTool == [present |-> FALSE, Executable |-> EmptyPath, Version |-> ""]

ToolchainTomlTool(executable, version) ==
  [present |-> TRUE, Executable |-> executable, Version |-> version]

\* new(ToolchainTomlTopLevel)
NewToolchainTomlTopLevel == [t \in RegTools |-> NilTool]

\* A table of the file: its header and the keys written under it.
NoTable ==
  [header |-> FALSE, hasExecutable |-> FALSE, Executable |-> EmptyPath,
   hasVersion |-> FALSE, Version |-> ""]

\* toml.NewEncoder(fp).Encode: a nil pointer writes nothing, a field tagged
\* omitempty is written only when it is not the empty string.
EncodeTool(e) ==
  IF ~e.present THEN NoTable
  ELSE [header |-> TRUE,
        hasExecutable |-> e.Executable # EmptyPath,
        Executable |-> e.Executable,
        hasVersion |-> e.Version # "",
        Version |-> e.Version]

\* toml.DecodeFile: a table makes the pointer non-nil, a missing key leaves
\* the field the empty string.
DecodeTable(tb) ==
  IF ~tb.header THEN NilTool
  ELSE [present |-> TRUE,
        Executable |-> IF tb.hasExecutable THEN tb.Executable ELSE EmptyPath,
        Version |-> IF tb.hasVersion THEN tb.Version ELSE ""]

NoFile == [exists |-> FALSE, tables |-> [t \in RegTools |-> NoTable]]

\* ReadToolchainToml returns (nil, err) when the file cannot be decoded; a
\* missing file gives an error that satisfies os.IsNotExist.
ReadToolchainToml(file) ==
  IF ~file.exists
  THEN [err |-> "notexist", top |-> "nil"]
  ELSE [err |-> "none", top |-> [t \in RegTools |-> DecodeTable(file.tables[t])]]

\* What BuildConfiguration and update<Tool>ToolchainToml go on with: the
\* decoded registry, or new(ToolchainTomlTopLevel) after os.IsNotExist(err).
toolchainTomlOrNew(file) ==
  LET read == ReadToolchainToml(file)
  IN IF read.err = "notexist" THEN NewToolchainTomlTopLevel ELSE read.top

WriteToolchainToml(top) ==
  [exists |-> TRUE, tables |-> [t \in RegTools |-> EncodeTool(top[t])]]

\* A variant that writes the tool's entry into a new registry instead of the
\* one it read.
updateToolchainTomlFromNew(file, t, executable, version) ==
  WriteToolchainToml([NewToolchainTomlTopLevel EXCEPT
                        ![t] = ToolchainTomlTool(executable, version)])

\* update<Tool>ToolchainToml: read, set the tool's entry, write everything.
updateToolchainToml(file, t, executable, version) ==
  LET top == toolchainTomlOrNew(file)
  IN WriteToolchainToml([top EXCEPT ![t] = ToolchainTomlTool(executable, version)])

\* scripts/bootstrap-build-tool.sh writes the [go] table when it installs Go.
GoExecutableFile == Rel(<<<<"go-", "1.25.3">>, N("bin"), N("go")>>)

create_toolchain_toml(file) ==
  IF file.exists THEN file
  ELSE WriteToolchainToml([NewToolchainTomlTopLevel EXCEPT
         !["go"] = ToolchainTomlTool(GoExecutableFile, "1.25.3")])

(***************************************************************************)
(* Configuration cascade (config.go).  configFile is the tool's table of   *)
(* config.toml, downloadsFile the tool's table of downloads.toml,          *)
(* toolchainToml the decoded registry.  The result is the tool's           *)
(* runtimeConfig; a field the tool's struct does not have is left empty.   *)
(***************************************************************************)
NoVersionError == "no configured version"

NoFileInfoError == "size and SHA-256 not found in downloads.toml"

\* Executable: the user's override, else the absolute form of the recorded one.
cascadeExecutable(configFile, entry) ==
  IF configFile.Executable # EmptyPath THEN configFile.Executable
  ELSE IF entry.present /\ entry.Executable # EmptyPath THEN Abs(entry.Executable)
  ELSE EmptyPath

\* A variant that prefers the manifest's version to the user's.
cascadeVersionManifestFirst(configFile, downloadsFile) ==
  IF downloadsFile.PreferredVersion # "" THEN downloadsFile.PreferredVersion
  ELSE configFile.Version

\* version: the user's override, else the manifest's preferred version.
cascadeVersion(configFile, downloadsFile) ==
  IF configFile.Version # "" THEN configFile.Version
  ELSE downloadsFile.PreferredVersion

populateBisonRuntimeConfig(ToolChainDir, configFile, downloadsFile, toolchainToml) ==
  LET entry == toolchainToml["bison"]
      version == cascadeVersion(configFile, downloadsFile)
  IN [err |-> IF version = "" THEN NoVersionError ELSE "none",
      Executable |-> cascadeExecutable(configFile, entry),
      toolchainDir |-> IF ~entry.present THEN EmptyPath
                       ELSE Join(ToolChainDir, Rel(<<<<"bison-", entry.Version>>>>)),
      toolchainExecutable |-> IF ~entry.present THEN EmptyPath ELSE entry.Executable,
      toolchainVersion |-> IF ~entry.present THEN "" ELSE entry.Version,
      version |-> version,
      versionedDir |-> Rel(<<<<"bison-", version>>>>),
      files |-> downloadsFile.Files]

populateBpfAsmRuntimeConfig(ToolChainDir, configFile, toolchainToml, downloadsFileLinux) ==
  LET entry == toolchainToml["bpfasm"]
      version == cascadeVersion(configFile, downloadsFileLinux)
  IN [err |-> IF version = "" THEN NoVersionError ELSE "none",
      Executable |->
        IF configFile.Executable # EmptyPath THEN configFile.Executable
        ELSE IF entry.present /\ entry.Executable # EmptyPath /\ entry.Version = version
             THEN Abs(entry.Executable)
        ELSE EmptyPath,
      toolchainDir |-> IF ~entry.present THEN EmptyPath
                       ELSE Join(ToolChainDir, Rel(<<<<"bpf_asm-", entry.Version>>>>)),
      toolchainExecutable |-> IF ~entry.present THEN EmptyPath ELSE entry.Executable,
      toolchainVersion |-> IF ~entry.present THEN "" ELSE entry.Version,
      version |-> version,
      versionedDir |-> EmptyPath,
      files |-> downloadsFileLinux.Files]

populateCapnProtoRuntimeConfig(configFile, downloadsFile, toolchainToml) ==
  LET entry == toolchainToml["capnproto"]
      version == cascadeVersion(configFile, downloadsFile)
  IN [err |-> IF version = "" THEN NoVersionError ELSE "none",
      Executable |-> cascadeExecutable(configFile, entry),
      toolchainDir |-> EmptyPath,
      toolchainExecutable |-> IF ~entry.present THEN EmptyPath ELSE entry.Executable,
      toolchainVersion |-> IF ~entry.present THEN "" ELSE entry.Version,
      version |-> version,
      versionedDir |-> EmptyPath,
      files |-> downloadsFile.Files]

populateFlexRuntimeConfig(ToolChainDir, configFile, downloadsFile, toolchainToml) ==
  LET entry == toolchainToml["flex"]
      version == cascadeVersion(configFile, downloadsFile)
  IN [err |-> IF version = "" THEN NoVersionError ELSE "none",
      Executable |-> cascadeExecutable(configFile, entry),
      toolchainDir |-> IF ~entry.present THEN EmptyPath
                       ELSE Join(ToolChainDir, Rel(<<<<"flex-", entry.Version>>>>)),
      toolchainExecutable |-> IF ~entry.present THEN EmptyPath ELSE entry.Executable,
      toolchainVersion |-> IF ~entry.present THEN "" ELSE entry.Version,
      version |-> version,
      versionedDir |-> Rel(<<<<"flex-", version>>>>),
      files |-> downloadsFile.Files]

populateBuildGoCapnpRuntimeConfig(ToolChainDir, configFile, downloadsFile, toolchainToml) ==
  LET entry == toolchainToml["gocapnp"]
      version == cascadeVersion(configFile, downloadsFile)
  IN [err |-> IF version = "" THEN NoVersionError ELSE "none",
      Executable |-> cascadeExecutable(configFile, entry),
      toolchainDir |-> IF ~entry.present THEN EmptyPath
                       ELSE Join(ToolChainDir, Rel(<<<<"capnproto-", entry.Version>>>>)),
      toolchainExecutable |-> IF ~entry.present THEN EmptyPath ELSE entry.Executable,
      toolchainVersion |-> IF ~entry.present THEN "" ELSE entry.Version,
      version |-> version,
      versionedDir |-> Rel(<<<<"go-capnp-", version>>>>),
      files |-> downloadsFile.Files]

populateTinyGoRuntimeConfig(configFile, downloadsFile, toolchainToml) ==
  LET entry == toolchainToml["tinygo"]
      version == cascadeVersion(configFile, downloadsFile)
  IN [err |-> IF version = "" THEN NoVersionError ELSE "none",
      Executable |-> cascadeExecutable(configFile, entry),
      toolchainDir |-> EmptyPath,
      toolchainExecutable |-> IF ~entry.present THEN EmptyPath ELSE entry.Executable,
      toolchainVersion |-> IF ~entry.present THEN "" ELSE entry.Version,
      version |-> version,
      versionedDir |-> EmptyPath,
      files |-> downloadsFile.Files]

\* Binaryen's resolver: the user's override is the executable; the recorded
\* executable is taken relative to the toolchain root; the install directory
\* is the tool prefix plus the effective version below the toolchain root.
populateBinaryenRuntimeConfig(ToolChainDir, configFile, downloadsFile, toolchainToml) ==
  LET entry == toolchainToml["binaryen"]
      version == cascadeVersion(configFile, downloadsFile)
  IN [err |-> IF version = "" THEN NoVersionError ELSE "none",
      Executable |-> configFile.Executable,
      toolchainDir |-> Join(ToolChainDir, Rel(<<<<"binaryen-", version>>>>)),
      toolchainExecutable |->
        IF ~entry.present \/ entry.Executable = EmptyPath THEN EmptyPath
        ELSE Join(ToolChainDir, entry.Executable),
      toolchainVersion |-> IF ~entry.present THEN "" ELSE entry.Version,
      version |-> version,
      versionedDir |-> Rel(<<<<"binaryen-", version>>>>),
      files |-> downloadsFile.Files]

\* populateExecutablesRuntimeConfig: the Go executable.  toolchainToml.Go is
\* dereferenced without a nil check.
populateExecutablesRuntimeConfig(goExecutable, toolchainToml) ==
  IF goExecutable # EmptyPath
  THEN [err |-> "none", goExecutable |-> Abs(goExecutable)]
  ELSE IF ~toolchainToml["go"].present
  THEN [err |-> "panic", goExecutable |-> EmptyPath]
  ELSE IF toolchainToml["go"].Executable # EmptyPath
  THEN [err |-> "none", goExecutable |-> Abs(toolchainToml["go"].Executable)]
  ELSE [err |-> "none", goExecutable |-> EmptyPath]

\* The tool's table of config.toml, for a tool other than the one being
\* bootstrapped: only the executable override is set.
OtherTable(executable) == [Executable |-> executable, Version |-> ""]

\* BuildConfiguration: the registry is read (a missing file is an empty
\* registry), the Go executable is resolved, then every tool's configuration.
\* t is the tool of this invocation; the tables of the other tools are
\* complete, so only t's resolution can fail.
BuildConfiguration(t, ToolChainDir, configFile, downloadsFile, file) ==
  LET toolchainToml == toolchainTomlOrNew(file)
      executables == populateExecutablesRuntimeConfig(configFile.GoExecutable, toolchainToml)
      own == [Executable |-> configFile.Executable, Version |-> configFile.Version]
      tool ==
        CASE t = "bison" -> populateBisonRuntimeConfig(ToolChainDir, own, downloadsFile, toolchainToml)
          [] t = "bpfasm" -> populateBpfAsmRuntimeConfig(ToolChainDir, own, toolchainToml, downloadsFile)
          [] t = "capnproto" -> populateCapnProtoRuntimeConfig(own, downloadsFile, toolchainToml)
          [] t = "flex" -> populateFlexRuntimeConfig(ToolChainDir, own, downloadsFile, toolchainToml)
          [] t = "gocapnp" -> populateBuildGoCapnpRuntimeConfig(ToolChainDir, own, downloadsFile, toolchainToml)
          [] t = "tinygo" -> populateTinyGoRuntimeConfig(own, downloadsFile, toolchainToml)
          [] t = "binaryen" -> populateBinaryenRuntimeConfig(ToolChainDir, own, downloadsFile, toolchainToml)
  IN [err |-> IF executables.err # "none" THEN executables.err ELSE tool.err,
      ToolChainDir |-> ToolChainDir,
      goExecutable |-> executables.goExecutable,
      Bison |-> populateBisonRuntimeConfig(ToolChainDir,
                  OtherTable(configFile.BisonExecutable), downloadsFile, toolchainToml),
      Flex |-> populateFlexRuntimeConfig(ToolChainDir,
                  OtherTable(configFile.FlexExecutable), downloadsFile, toolchainToml),
      Tool |-> tool]

(***************************************************************************)
(* get<Tool>Config: the configuration an orchestrator works with.          *)
(* downloadFile is the expanded file name, identified by its version.      *)
(* buildDir is the directory the build commands get as cmd.Dir.            *)
(***************************************************************************)
\* files[downloadFile] == (runtimeConfigFile{})
FileInfoError(rc) == IF rc.version \in rc.files THEN "none" ELSE NoFileInfoError

getBisonConfig(buildToolConfig) ==
  LET rc == buildToolConfig.Tool
  IN [err |-> FileInfoError(rc), downloadFile |-> rc.version,
      executable |-> rc.Executable,
      toolchainDir |-> rc.toolchainDir,
      toolchainExecutable |-> rc.toolchainExecutable,
      toolchainVersion |-> rc.toolchainVersion,
      version |-> rc.version,
      versionedDir |-> rc.versionedDir,
      tarGzDir |-> rc.versionedDir,
      buildDir |-> rc.toolchainDir]

getFlexConfig(buildToolConfig) ==
  LET rc == buildToolConfig.Tool
  IN [err |-> FileInfoError(rc), downloadFile |-> rc.version,
      executable |-> rc.Executable,
      toolchainDir |-> rc.toolchainDir,
      toolchainExecutable |-> rc.toolchainExecutable,
      toolchainVersion |-> rc.toolchainVersion,
      version |-> rc.version,
      versionedDir |-> rc.versionedDir,
      tarGzDir |-> rc.versionedDir,
      buildDir |-> rc.toolchainDir]

getCapnProtoConfig(buildToolConfig) ==
  LET rc == buildToolConfig.Tool
      toolchainDir == Join(buildToolConfig.ToolChainDir, Rel(<<<<"capnproto-", rc.version>>>>))
  IN [err |-> FileInfoError(rc), downloadFile |-> rc.version,
      executable |-> rc.Executable,
      toolchainDir |-> toolchainDir,
      toolchainExecutable |-> rc.toolchainExecutable,
      toolchainVersion |-> rc.toolchainVersion,
      version |-> rc.version,
      versionedDir |-> Rel(<<<<"capnproto-", rc.version>>>>),
      tarGzDir |-> Rel(<<<<"capnproto-c++-", rc.version>>>>),
      buildDir |-> toolchainDir]

getGoCapnpConfig(buildToolConfig) ==
  LET rc == buildToolConfig.Tool
  IN [err |-> FileInfoError(rc), downloadFile |-> rc.version,
      executable |-> rc.Executable,
      toolchainDir |-> rc.toolchainDir,
      toolchainExecutable |-> rc.toolchainExecutable,
      toolchainVersion |-> rc.toolchainVersion,
      version |-> rc.version,
      versionedDir |-> rc.versionedDir,
      tarGzDir |-> Rel(<<<<"go-capnp-", rc.version>>>>),
      buildDir |-> Join(rc.toolchainDir, Rel(<<N("capnpc-go")>>))]

getTinyGoConfig(buildToolConfig) ==
  LET rc == buildToolConfig.Tool
      toolchainDir == Join(buildToolConfig.ToolChainDir, Rel(<<<<"tinygo-", rc.version>>>>))
  IN [err |-> FileInfoError(rc), downloadFile |-> rc.version,
      executable |-> rc.Executable,
      toolchainDir |-> toolchainDir,
      toolchainExecutable |-> rc.toolchainExecutable,
      toolchainVersion |-> rc.toolchainVersion,
      version |-> rc.version,
      versionedDir |-> Rel(<<<<"tinygo-", rc.version>>>>),
      tarGzDir |-> Rel(<<N("tinygo")>>),
      buildDir |-> toolchainDir]

getBinaryenConfig(buildToolConfig) ==
  LET rc == buildToolConfig.Tool
  IN [err |-> FileInfoError(rc), downloadFile |-> rc.version,
      executable |-> rc.Executable,
      toolchainDir |-> rc.toolchainDir,
      toolchainExecutable |-> rc.toolchainExecutable,
      toolchainVersion |-> rc.toolchainVersion,
      version |-> rc.version,
      versionedDir |-> rc.versionedDir,
      tarGzDir |-> rc.versionedDir,
      buildDir |-> rc.toolchainDir]

\* The executable of Bison or Flex that bpf_asm's make is given.
dependencyExecutable(rc) ==
  IF rc.Executable # EmptyPath THEN rc.Executable ELSE rc.toolchainExecutable

getBpfAsmConfig(buildToolConfig) ==
  LET rc == buildToolConfig.Tool
      toolchainDir == Join(buildToolConfig.ToolChainDir, Rel(<<<<"bpf_asm-", rc.version>>>>))
  IN [err |-> IF dependencyExecutable(buildToolConfig.Bison) = EmptyPath
              THEN "Unable to find Bison executable"
              ELSE IF dependencyExecutable(buildToolConfig.Flex) = EmptyPath
              THEN "Unable to find Flex executable"
              ELSE "none",
      downloadFile |-> rc.version,
      executable |-> rc.Executable,
      toolchainDir |-> toolchainDir,
      toolchainExecutable |-> rc.toolchainExecutable,
      toolchainVersion |-> rc.toolchainVersion,
      version |-> rc.version,
      versionedDir |-> Rel(<<<<"bpf_asm-", rc.version>>>>),
      tarGzDir |-> Rel(<<<<"linux-", rc.version>>>>),
      buildDir |-> Join(toolchainDir, Rel(<<N("tools"), N("bpf")>>))]

\* getLinuxConfig, called by downloadAndVerifyLinuxTarball.
getLinuxConfig(buildToolConfig) == FileInfoError(buildToolConfig.Tool)

\* The executables that the build commands run, as goCapnpConfig and
\* bpfAsmConfig carry them.
withExecutables(c, buildToolConfig) ==
  [err |-> c.err, downloadFile |-> c.downloadFile, executable |-> c.executable,
   toolchainDir |-> c.toolchainDir, toolchainExecutable |-> c.toolchainExecutable,
   toolchainVersion |-> c.toolchainVersion, version |-> c.version,
   versionedDir |-> c.versionedDir, tarGzDir |-> c.tarGzDir, buildDir |-> c.buildDir,
   goExecutable |-> buildToolConfig.goExecutable,
   bisonExecutable |-> dependencyExecutable(buildToolConfig.Bison),
   flexExecutable |-> dependencyExecutable(buildToolConfig.Flex)]

getToolConfig(t, buildToolConfig) ==
  withExecutables(
    CASE t = "bison" -> getBisonConfig(buildToolConfig)
      [] t = "flex" -> getFlexConfig(buildToolConfig)
      [] t = "capnproto" -> getCapnProtoConfig(buildToolConfig)
      [] t = "gocapnp" -> getGoCapnpConfig(buildToolConfig)
      [] t = "tinygo" -> getTinyGoConfig(buildToolConfig)
      [] t = "binaryen" -> getBinaryenConfig(buildToolConfig)
      [] t = "bpfasm" -> getBpfAsmConfig(buildToolConfig),
    buildToolConfig)

\* A tool configuration before the first run.
NoToolConfig ==
  [err |-> "none", downloadFile |-> "", executable |-> EmptyPath,
   toolchainDir |-> EmptyPath, toolchainExecutable |-> EmptyPath,
   toolchainVersion |-> "", version |-> "", versionedDir |-> EmptyPath,
   tarGzDir |-> EmptyPath, buildDir |-> EmptyPath,
   goExecutable |-> EmptyPath, bisonExecutable |-> EmptyPath,
   flexExecutable |-> EmptyPath]

(***************************************************************************)
(* The file system: files and dirs are the sets of places at which a       *)
(* regular file and a directory exist.                                     *)
(***************************************************************************)
\* fileExistsAtPath: os.Stat finds a file that is not a directory.
fileExistsAtPath(files, filePath) ==
  /\ filePath # EmptyPath
  /\ Resolve(filePath) \in files

\* The places an unprivileged build-tool may write to: the repository.
Writable(loc, root) == root \/ IsUnder(loc, Cwd.segs)

\* Modification times.  The headers of an archive carry the times T1 < T2
\* of its release; what existed before the run is older (Old), and the
\* clock of a run (Now) is later than every time in an archive.
Old == 0

T1 == 1

T2 == 2

Now == 3

\* The modification times after the directories and files in created have
\* come into being: a new directory has the time of its creation, and so
\* has every directory that one of them was created in.
Touched(mtime, dirs, created) ==
  [d \in dirs |->
     IF d \notin DOMAIN mtime \/ \E loc \in created : loc # <<>> /\ Parent(loc) = d
     THEN Now ELSE mtime[d]]

\* os.MkdirAll(path): creates the directory and its missing ancestors.
MkdirAll(fs, path, asRoot) ==
  LET loc == Resolve(path)
      missing == Ancestors(loc) \ fs.dirs
  IN IF \/ Ancestors(loc) \cap fs.files # {}
        \/ \E d \in missing : ~Writable(d, asRoot)
     THEN [fs EXCEPT !.err = "mkdir"]
     ELSE [fs EXCEPT !.dirs = @ \cup missing, !.written = @ \cup missing,
                     !.mtime = Touched(fs.mtime, fs.dirs \cup missing, missing)]

\* os.Create(path): the parent directory must exist.
Create(fs, path, asRoot) ==
  LET loc == Resolve(path)
  IN IF \/ loc = <<>>
        \/ Parent(loc) \notin fs.dirs
        \/ loc \in fs.dirs
        \/ ~Writable(loc, asRoot)
     THEN [fs EXCEPT !.err = "create"]
     ELSE [fs EXCEPT !.files = @ \cup {loc}, !.written = @ \cup {loc},
                     !.mtime = Touched(fs.mtime, fs.dirs, {loc})]

\* os.Chtimes(path, atime, mtime) on a directory of the file system.
Chtimes(fs, loc, modTime, asRoot) ==
  IF loc \notin fs.dirs \/ ~Writable(loc, asRoot)
  THEN [fs EXCEPT !.err = "chtimes"]
  ELSE [fs EXCEPT !.mtime = [@ EXCEPT ![loc] = modTime]]

(***************************************************************************)
(* Archives.  An entry has a type flag and a name; the name of a           *)
(* directory entry ends in a slash.                                        *)
(***************************************************************************)
Dir(name) == [type |-> "dir", name |-> name, ModTime |-> T1]

Reg(name) == [type |-> "reg", name |-> name, ModTime |-> T2]

Symlink(name) == [type |-> "symlink", name |-> name, ModTime |-> T2]

\* The PAX global header that precedes the entries of some archives.
GlobalHeader(name) == [type |-> "xglobal", name |-> name, ModTime |-> T2]

\* An entry of a type that extractTar does not handle (a hard link, a device).
Other(name) == [type |-> "other", name |-> name, ModTime |-> T2]

\* The entry with another modification time in its header.
At(entry, modTime) == [entry EXCEPT !.ModTime = modTime]

\* strings.HasPrefix(filePath, ensureTrailingSlash(prefix)) for a prefix of
\* one component: the first component is the prefix and a slash follows it.
HasDirPrefix(entry, prefix) ==
  /\ Len(entry.name) >= 1
  /\ entry.name[1] = prefix
  /\ (Len(entry.name) >= 2 \/ entry.type = "dir")

\* filterLinuxTarXz for the prefixes "linux-<v>/tools/{bpf,build,scripts}/":
\* HasPrefix(filePath, prefix[:min(len(prefix), len(filePath))]), i.e. the
\* entry is below one of the directories or its name leads to one.
filterLinuxTarXz(entry, version) ==
  \E sub \in {"bpf", "build", "scripts"} :
    LET prefix == <<<<"linux-", version>>, N("tools"), N(sub)>>
        k == IF Len(entry.name) < 3 THEN Len(entry.name) ELSE 3
    IN SubSeq(entry.name, 1, k) = SubSeq(prefix, 1, k)

\* The tool's fileFilter.
filter(t, cfg, entry) ==
  IF t = "bpfasm" THEN filterLinuxTarXz(entry, cfg.version)
  ELSE HasDirPrefix(entry, cfg.tarGzDir.segs[1])

\* The tool's fileTransformer.  Flex and Bison join the entry's name to the
\* toolchain root; the others cut the archive's top directory off the name
\* and join the rest to the destination directory.
transform(t, ToolChainDir, cfg, entry) ==
  IF t \in {"flex", "bison"}
  THEN Join(ToolChainDir, Rel(entry.name))
  ELSE Join(ensureTrailingSlash(cfg.toolchainDir), Rel(Tail(entry.name)))

\* dirTimes = append(dirTimes, &dirTime{newDir, AccessTime, ModTime}), when
\* os.MkdirAll has succeeded.
appendDirTime(fs, path, modTime) ==
  IF fs.err # "none" THEN fs
  ELSE [fs EXCEPT !.dirTimes = Append(@, [dirName |-> Resolve(path),
                                          modificationTime |-> modTime])]

\* One iteration of extractTar's loop.
\* A variant that handles directories and regular files only.
extractEntryNoSkip(t, ToolChainDir, cfg, fs, entry, asRoot) ==
  IF entry.type = "dir"
  THEN IF filter(t, cfg, entry)
       THEN appendDirTime(
              MkdirAll(fs, transform(t, ToolChainDir, cfg, entry), asRoot),
              transform(t, ToolChainDir, cfg, entry), entry.ModTime)
       ELSE fs
  ELSE IF entry.type = "reg"
  THEN IF filter(t, cfg, entry)
       THEN Create(fs, transform(t, ToolChainDir, cfg, entry), asRoot)
       ELSE fs
  ELSE [fs EXCEPT !.err = "unexpected type"]

extractEntry(t, ToolChainDir, cfg, fs, entry, asRoot) ==
  IF entry.type = "dir"
  THEN IF filter(t, cfg, entry)
       THEN appendDirTime(
              MkdirAll(fs, transform(t, ToolChainDir, cfg, entry), asRoot),
              transform(t, ToolChainDir, cfg, entry), entry.ModTime)
       ELSE fs
  ELSE IF entry.type = "reg"
  THEN IF filter(t, cfg, entry)
       THEN Create(fs, transform(t, ToolChainDir, cfg, entry), asRoot)
       ELSE fs
  ELSE IF entry.type = "symlink"
  THEN fs
  ELSE IF entry.type = "xglobal"
  THEN fs
  ELSE [fs EXCEPT !.err = "unexpected type"]

\* The loop of extractTar: it stops at the first error.
RECURSIVE readEntries(_, _, _, _, _, _)
readEntries(t, ToolChainDir, cfg, fs, entries, asRoot) ==
  IF entries = <<>> \/ fs.err # "none" THEN fs
  ELSE readEntries(t, ToolChainDir, cfg,
                   extractEntry(t, ToolChainDir, cfg, fs, Head(entries), asRoot),
                   Tail(entries), asRoot)

\* slices.Reverse
Reverse(seq) == [i \in 1..Len(seq) |-> seq[Len(seq) + 1 - i]]

\* os.Chtimes for each directory time in turn; the first error ends the loop.
RECURSIVE chtimesEach(_, _, _)
chtimesEach(fs, times, asRoot) ==
  IF times = <<>> \/ fs.err # "none" THEN fs
  ELSE chtimesEach(Chtimes(fs, Head(times).dirName,
                           Head(times).modificationTime, asRoot),
                   Tail(times), asRoot)

\* A variant that leaves the directories with the times they have.
keepDirTimes(fs, asRoot) == fs

\* The end of extractTar: the directory times are reversed and restored.
restoreDirTimes(fs, asRoot) ==
  chtimesEach([fs EXCEPT !.dirTimes = Reverse(@)], Reverse(fs.dirTimes), asRoot)

\* extractTar: the entries, then the times of the directories.
extractTar(t, ToolChainDir, cfg, fs, entries, asRoot) ==
  LET read == readEntries(t, ToolChainDir, cfg, fs, entries, asRoot)
  IN IF read.err # "none" THEN read ELSE restoreDirTimes(read, asRoot)

(***************************************************************************)
(* The skip decision at the head of each orchestrator.                     *)
(***************************************************************************)
\* Flex, go-capnp, bpf_asm, Binaryen: the executable first, then the
\* toolchain's executable and version.
decideExecutableThenToolchain(files, cfg) ==
  IF cfg.executable # EmptyPath
  THEN IF fileExistsAtPath(files, cfg.executable) THEN "skip" ELSE "missing"
  ELSE IF /\ cfg.toolchainExecutable # EmptyPath
          /\ fileExistsAtPath(files, cfg.toolchainExecutable)
          /\ cfg.version = cfg.toolchainVersion
  THEN "skip"
  ELSE "install"

\* Bison, Cap'n Proto, TinyGo: the executable is compared with the
\* toolchain's executable.
decideCompareWithToolchain(files, cfg) ==
  LET exists == fileExistsAtPath(files, cfg.executable)
  IN IF cfg.executable = cfg.toolchainExecutable
     THEN IF cfg.version = cfg.toolchainVersion /\ exists THEN "skip" ELSE "install"
     ELSE IF cfg.executable # EmptyPath
     THEN IF exists THEN "skip" ELSE "missing"
     ELSE "install"

\* A variant that never skips.
decideAlwaysInstall(t, files, cfg) == "install"

\* Each orchestrator decides by one of the two orders.
decide(t, files, cfg) ==
  IF t \in {"bison", "capnproto", "tinygo"}
  THEN decideCompareWithToolchain(files, cfg)
  ELSE decideExecutableThenToolchain(files, cfg)

(***************************************************************************)
(* Downloads, the cache and verification.                                  *)
(***************************************************************************)
\* What a file in the download cache can hold: the archive that the manifest
\* describes, that archive with one byte changed, or a truncated copy.
Contents == {"genuine", "flipped", "truncated"}

\* fileInfo.Size()
FileSize(content) == IF content = "truncated" THEN 1 ELSE 2

\* hex.EncodeToString(sha256.Sum(content))
Sha256(content) == <<"sha256", content>>

\* The size and SHA-256 that downloads.toml lists for the file.
expectedFileSize == FileSize("genuine")

expectedSha256 == Sha256("genuine")

\* A variant that accepts a file of any size.
verifyFileSizeAnySize(expected, content) == TRUE

verifyFileSize(expected, content) == FileSize(content) = expected

\* A variant that accepts every file.
verifySha256AcceptAll(expected, content) == TRUE

verifySha256(expected, content) == Sha256(content) = expected

\* What the archive of a tool can look like.
Shapes == {"good", "badtype", "mismatch", "badtail"}

\* The file of the archive that the installation needs: the build's input,
\* or the executable itself for a tool that is installed by extraction.
Payload(t) ==
  IF HasBuild(t) THEN BuildSubDir(t) \o <<BuildInput(t)>> ELSE BinaryPath(t)

\* The archive of a release: its top directory, the directories that lead
\* to the payload, the payload.
GoodArchive(top, payload) ==
  [i \in 1..Len(payload) |-> Dir(<<top>> \o SubSeq(payload, 1, i - 1))]
    \o <<Reg(<<top>> \o payload)>>

\* The top directory of an archive that is not the one the version announces.
OtherTop(t) == <<VersionedDirPrefix(t), "v0">>

Archive(t, version, shape) ==
  CASE shape = "good" -> GoodArchive(TarDir(t, version), Payload(t))
    [] shape = "badtype" ->
         <<Dir(<<TarDir(t, version)>>), Other(<<TarDir(t, version), N("link")>>)>>
           \o Tail(GoodArchive(TarDir(t, version), Payload(t)))
    [] shape = "mismatch" -> GoodArchive(OtherTop(t), Payload(t))
    [] shape = "badtail" ->
         GoodArchive(TarDir(t, version), Payload(t))
           \o <<Other(<<TarDir(t, version), N("link")>>),
                Reg(<<TarDir(t, version), N("README")>>)>>

(***************************************************************************)
(* Build commands and the registry entry.                                  *)
(***************************************************************************)
\* The executable relative to the directory the build command runs in.
BuiltBinary(t) == SubSeq(BinaryPath(t), Len(BuildSubDir(t)) + 1, Len(BinaryPath(t)))

\* A file below the directory given as cmd.Dir; an empty cmd.Dir is the
\* working directory of the build-tool.
InDir(dir, rel) == Resolve(Join(dir, Rel(rel)))

\* configure<Tool>: ./configure must be in the directory.
canConfigure(files, cfg) == InDir(cfg.buildDir, <<N("configure")>>) \in files

\* make<Tool>, buildCapnpcGo, makeBpfAsm: what the command needs.
canBuild(t, files, cfg) ==
  CASE t = "gocapnp" ->
         /\ InDir(cfg.buildDir, <<N("main.go")>>) \in files
         /\ fileExistsAtPath(files, cfg.goExecutable)
    [] t = "bpfasm" ->
         /\ InDir(cfg.buildDir, <<N("Makefile")>>) \in files
         /\ fileExistsAtPath(files, cfg.bisonExecutable)
         /\ fileExistsAtPath(files, cfg.flexExecutable)
    [] OTHER -> InDir(cfg.buildDir, <<N("Makefile")>>) \in files

\* The Executable that the orchestrator hands to update<Tool>ToolchainToml.
toolchainTomlExecutable(t, ToolChainDir, cfg) ==
  CASE t \in {"bison", "capnproto", "tinygo"} -> Join(cfg.toolchainDir, Rel(BinaryPath(t)))
    [] t \in {"flex", "gocapnp", "binaryen"} -> Join(cfg.versionedDir, Rel(BinaryPath(t)))
    [] t = "bpfasm" -> RelTo(ToolChainDir, Join(cfg.buildDir, Rel(<<N("bpf_asm")>>)))

\* The executable whose presence makes TinyGo and Binaryen refuse to install.
refusalProbe(t, cfg) ==
  IF t = "tinygo" THEN cfg.executable ELSE cfg.toolchainExecutable

(***************************************************************************)
(* The state of an installation and of the run in progress.                *)
(***************************************************************************)
VARIABLES
  tool,           \* the tool whose bootstrap subcommand is invoked
  ToolChainDir,   \* Directories.ToolChainDir, as config.toml spells it
  downloadsFile,  \* the tool's table of downloads.toml
  upstream,       \* the shape of the archives that the download URL serves
  goExecutable,   \* [build-tool.go].Executable of config.toml
  privileged,     \* whether the build-tool may write outside the repository
  configFile,     \* the tool's table of config.toml in the current run
  tomlFile,       \* toolchain.toml
  files,          \* the regular files of the file system
  dirs,           \* the directories of the file system
  cache,          \* the download directory: file (by version) -> content
  tmpFiles,       \* the number of "download-*" temporary files left in it
  received,       \* what the last request of the download step yielded
  downloadDir,    \* whether the download directory exists
  pc,             \* the step the run is at; "idle" between runs
  cfg,            \* the tool configuration of the current run
  trace,          \* the steps the current run has performed
  written,        \* the places the current run's extraction has written
  start,          \* toolchain.toml, the cache and the files as the run found them
  prev,           \* the previous run: what it found, its configuration, its result
  result,         \* the result of the last finished run
  runs,           \* the number of runs started
  pending,        \* the archive entries that extractTar has not read yet
  mtime,          \* the modification time of each directory
  dirTimes        \* extractTar's list of directory times still to restore

vars ==
  <<tool, ToolChainDir, downloadsFile, upstream, goExecutable, privileged,
    configFile, tomlFile, files, dirs, cache, tmpFiles, received, downloadDir, pc, cfg,
    trace, written, start, prev, result, runs, pending, mtime, dirTimes>>

\* What http.Get and the copy of the body can yield: a failed connection,
\* a status (200, another 2xx, an error status) and, with status 200, a body
\* that is copied completely or whose copy breaks off.
Response(err, StatusCode, Body, copied) ==
  [err |-> err, StatusCode |-> StatusCode, Body |-> Body, copied |-> copied]

NoResponse == Response(FALSE, 0, "absent", FALSE)

Responses ==
  {Response(TRUE, 0, "absent", FALSE),
   Response(FALSE, 404, "absent", FALSE),
   Response(FALSE, 204, "absent", FALSE),
   Response(FALSE, 200, "genuine", FALSE)}
    \cup {Response(FALSE, 200, c, TRUE) : c \in Contents}

\* The number of build-tool invocations in a behaviour.
MaxRuns == 2

\* The Go installation of the user, outside the toolchain.
ExtGo == [abs |-> TRUE, segs |-> <<N("usr"), N("go")>>]

\* The manifests: complete, without a preferred version, without the file
\* entry of version v2.
Manifests ==
  {[PreferredVersion |-> "v1", Files |-> {"v1", "v2"}],
   [PreferredVersion |-> "", Files |-> {"v1", "v2"}],
   [PreferredVersion |-> "v1", Files |-> {"v1"}]}

EmptyConfigFile ==
  [Executable |-> EmptyPath, Version |-> "", GoExecutable |-> EmptyPath,
   BisonExecutable |-> EmptyPath, FlexExecutable |-> EmptyPath]

\* The executable overrides a user may write: none, a file that exists, a
\* file that does not, the path that the registry records for the tool.
UserExecutables(t, file) ==
  {EmptyPath, ExtPresent, ExtMissing} \cup {DecodeTable(file.tables[t]).Executable}

\* The tables of config.toml that a run may find.
ConfigFiles(t, file, go) ==
  {[Executable |-> e, Version |-> v, GoExecutable |-> go,
    BisonExecutable |-> d, FlexExecutable |-> d] :
     e \in UserExecutables(t, file), v \in {"", "v2"},
     d \in IF t = "bpfasm" THEN {EmptyPath, ExtPresent, ExtMissing}
                     ELSE {EmptyPath}}

NoResult == [status |-> "none", err |-> "none"]

Ok == [status |-> "ok", err |-> "none"]

Failed(err) == [status |-> IF err = "panic" THEN "panic" ELSE "error", err |-> err]

\* The file system of a checkout whose toolchain directory the bootstrap
\* script has created.
InitDirs ==
  {<<>>, <<N("usr")>>, Cwd.segs, ToolChainRoot}

InitFiles == {Resolve(ExtPresent), Resolve(ExtGo), Cwd.segs \o <<N("Makefile")>>}

\* The Go executable that the bootstrap script installs with the [go] table.
ScriptGoFiles == {Resolve(Join(AbsToolChainDir, GoExecutableFile))}

ScriptGoDirs ==
  Ancestors(Parent(Resolve(Join(AbsToolChainDir, GoExecutableFile))))

Init ==
  /\ tool \in Tools
  /\ ToolChainDir \in {RelToolChainDir, AbsToolChainDir}
  /\ downloadsFile \in Manifests
  /\ upstream \in Shapes
  /\ goExecutable \in {EmptyPath, ExtGo}
  /\ privileged \in BOOLEAN
  /\ \E script \in BOOLEAN :
       /\ tomlFile = IF script THEN create_toolchain_toml(NoFile) ELSE NoFile
       /\ files = InitFiles \cup (IF script THEN ScriptGoFiles ELSE {})
       /\ dirs = InitDirs \cup (IF script THEN ScriptGoDirs ELSE {})
  /\ configFile = EmptyConfigFile
  /\ cache = [v \in Versions |-> "absent"]
  /\ tmpFiles = 0
  /\ received = NoResponse
  /\ downloadDir = FALSE
  /\ pc = "idle"
  /\ cfg = NoToolConfig
  /\ trace = <<>>
  /\ written = {}
  /\ start = [toml |-> tomlFile, cache |-> cache, files |-> files, lost |-> {},
            downloadDir |-> downloadDir]
  /\ prev = [toml |-> tomlFile, configFile |-> EmptyConfigFile, result |-> NoResult,
             trace |-> <<>>]
  /\ result = NoResult
  /\ runs = 0
  /\ pending = <<>>
  /\ mtime = [d \in dirs |-> Old]
  /\ dirTimes = <<>>

\* What no step of a run changes.  The orchestrators hand the archive to
\* extractTar as a whole, so that between their steps no entry is pending
\* and no directory time waits to be restored.
Fixed ==
  UNCHANGED <<tool, ToolChainDir, downloadsFile, upstream, goExecutable,
              privileged, pending, dirTimes>>

\* The run ends: with an error, or successfully.
Finish(r) ==
  /\ pc' = "idle"
  /\ result' = r

\* The files of the tool's installations: those below the directories
\* <toolchain root>/<prefix><version>.
InstalledFiles(t, fileSet) ==
  {loc \in fileSet :
     /\ IsUnder(loc, ToolChainRoot)
     /\ Len(loc) > Len(ToolChainRoot) + 1
     /\ loc[Len(ToolChainRoot) + 1][1] = VersionedDirPrefix(t)}

\* What the user may have removed by hand since the last run: nothing, or
\* the files of the tool's installations.
Losses(t, fileSet) == {{}, InstalledFiles(t, fileSet)}

\* main: the configuration is built, the tool's configuration is derived
\* from it and the orchestrator decides whether there is anything to do.
\* The run finds the files that the user has left in place.
Start(c, lost) ==
  /\ pc = "idle"
  /\ runs < MaxRuns
  /\ runs' = runs + 1
  /\ configFile' = c
  /\ prev' = [toml |-> start.toml, configFile |-> configFile, result |-> result,
               trace |-> trace]
  /\ files' = files \ lost
  /\ start' = [toml |-> tomlFile, cache |-> cache, files |-> files \ lost,
               lost |-> lost, downloadDir |-> downloadDir]
  /\ trace' = <<>>
  /\ written' = {}
  /\ LET buildToolConfig ==
           BuildConfiguration(tool, ToolChainDir, c, downloadsFile, tomlFile)
         toolConfig == getToolConfig(tool, buildToolConfig)
         decision == decide(tool, files \ lost, toolConfig)
     IN IF buildToolConfig.err # "none"
        THEN /\ cfg' = NoToolConfig
             /\ Finish(Failed(buildToolConfig.err))
        ELSE /\ cfg' = toolConfig
             /\ IF toolConfig.err # "none" THEN Finish(Failed(toolConfig.err))
                ELSE IF decision = "skip" THEN Finish(Ok)
                ELSE IF decision = "missing" THEN Finish(Failed("executable does not exist"))
                ELSE IF tool = "bpfasm" /\ getLinuxConfig(buildToolConfig) # "none"
                THEN Finish(Failed(getLinuxConfig(buildToolConfig)))
                ELSE /\ pc' = "download"
                     /\ result' = NoResult
  /\ received' = NoResponse
  /\ UNCHANGED <<tomlFile, dirs, cache, tmpFiles, downloadDir, mtime>>
  /\ Fixed

\* A variant that writes the body to the download path as it arrives.
downloadUrlInPlace(dir, downloadFile, response) ==
  IF response.err
  THEN [dir EXCEPT !.err = "http.Get failed"]
  ELSE IF response.StatusCode # 200
  THEN [dir EXCEPT !.err = "GET failed"]
  ELSE IF ~response.copied
  THEN [dir EXCEPT !.cache[downloadFile] = "truncated", !.err = "copy failed"]
  ELSE [dir EXCEPT !.cache[downloadFile] = response.Body]

\* downloadUrlToDir on the download directory dir = [cache, tmpFiles, err]:
\* the temporary file is created first and is renamed to the download path
\* after the copy; every return before the rename leaves it behind.
downloadUrlToDir(dir, downloadFile, response) ==
  IF response.err
  THEN [dir EXCEPT !.tmpFiles = @ + 1, !.err = "http.Get failed"]
  ELSE IF response.StatusCode # 200
  THEN [dir EXCEPT !.tmpFiles = @ + 1, !.err = "GET failed"]
  ELSE IF ~response.copied
  THEN [dir EXCEPT !.tmpFiles = @ + 1, !.err = "copy failed"]
  ELSE [dir EXCEPT !.cache[downloadFile] = response.Body]

\* A variant that requests the URL whether or not the cache holds the file.
DownloadAgain(response) ==
  /\ pc = "download"
  /\ downloadDir' = TRUE
  /\ LET dir == downloadUrlToDir([cache |-> cache, tmpFiles |-> tmpFiles,
                                  err |-> "none"], cfg.downloadFile, response)
     IN /\ trace' = Append(trace, "download")
        /\ received' = response
        /\ cache' = dir.cache
        /\ tmpFiles' = dir.tmpFiles
        /\ IF dir.err # "none"
           THEN Finish(Failed(dir.err))
           ELSE pc' = "verifySize" /\ UNCHANGED result
  /\ UNCHANGED <<configFile, tomlFile, files, dirs, cfg, written, start, prev, runs,
                 mtime>>
  /\ Fixed

\* The download step: ensureDownloadDirExists creates the download
\* directory; a file already in the cache is not downloaded again; otherwise
\* downloadUrlToDir requests the URL.
Download(response) ==
  /\ pc = "download"
  /\ downloadDir' = TRUE
  /\ IF cache[cfg.downloadFile] # "absent"
     THEN /\ pc' = "verifySize"
          /\ UNCHANGED <<cache, tmpFiles, received, trace, result>>
     ELSE LET dir == downloadUrlToDir([cache |-> cache, tmpFiles |-> tmpFiles,
                                       err |-> "none"], cfg.downloadFile, response)
          IN /\ trace' = Append(trace, "download")
             /\ received' = response
             /\ cache' = dir.cache
             /\ tmpFiles' = dir.tmpFiles
             /\ IF dir.err # "none"
                THEN Finish(Failed(dir.err))
                ELSE pc' = "verifySize" /\ UNCHANGED result
  /\ UNCHANGED <<configFile, tomlFile, files, dirs, cfg, written, start, prev, runs,
                 mtime>>
  /\ Fixed

VerifySize ==
  /\ pc = "verifySize"
  /\ trace' = Append(trace, "verifyFileSize")
  /\ IF verifyFileSize(expectedFileSize, cache[cfg.downloadFile])
     THEN pc' = "verifySha256" /\ UNCHANGED result
     ELSE Finish(Failed("unexpected size"))
  /\ UNCHANGED <<configFile, tomlFile, files, dirs, cache, tmpFiles, received, downloadDir, cfg, written,
                 start, prev, runs, mtime>>
  /\ Fixed

\* After the checks Bison, Flex, Cap'n Proto, go-capnp and bpf_asm extract;
\* TinyGo and Binaryen first look for the executable.
VerifySha ==
  /\ pc = "verifySha256"
  /\ trace' = Append(trace, "verifySha256")
  /\ IF verifySha256(expectedSha256, cache[cfg.downloadFile])
     THEN pc' = "extract" /\ UNCHANGED result
     ELSE Finish(Failed("unexpected SHA-256"))
  /\ UNCHANGED <<configFile, tomlFile, files, dirs, cache, tmpFiles, received, downloadDir, cfg, written,
                 start, prev, runs, mtime>>
  /\ Fixed

\* The entries that the tar reader yields for a file of the cache: those of
\* the served archive; a damaged file yields some entries and then an error.
Entries(content) ==
  Archive(tool, cfg.version, IF content = "genuine" THEN upstream ELSE "badtype")

\* What the trace keeps of an extraction: the call, and its error if any.
ExtractEvents(fs) ==
  IF fs.err = "none" THEN <<"extract">> ELSE <<"extract", "extract failed">>

\* The step after a successful extraction.
AfterExtract ==
  IF HasConfigure(tool) THEN "configure"
  ELSE IF HasBuild(tool) THEN "build" ELSE "record"

\* extractTarGz / extractTarXz with the tool's filter and transform.  TinyGo
\* and Binaryen refuse to extract when the executable they probe exists,
\* and do not look at the error of the extraction.
Extract ==
  /\ pc = "extract"
  /\ LET fs == extractTar(tool, ToolChainDir, cfg,
                          [files |-> files, dirs |-> dirs, written |-> {},
                           err |-> "none", mtime |-> mtime, dirTimes |-> <<>>],
                          Entries(cache[cfg.downloadFile]), privileged)
     IN IF ~HasBuild(tool)
        THEN IF fileExistsAtPath(files, refusalProbe(tool, cfg))
             THEN /\ trace' = Append(trace, "refuse")
                  /\ pc' = "record"
                  /\ UNCHANGED <<files, dirs, written, result, mtime>>
             ELSE /\ trace' = trace \o ExtractEvents(fs)
                  /\ files' = fs.files
                  /\ dirs' = fs.dirs
                  /\ mtime' = fs.mtime
                  /\ written' = fs.written
                  /\ pc' = "record"
                  /\ UNCHANGED result
        ELSE /\ trace' = trace \o ExtractEvents(fs)
             /\ files' = fs.files
             /\ dirs' = fs.dirs
             /\ mtime' = fs.mtime
             /\ written' = fs.written
             /\ IF fs.err # "none" THEN Finish(Failed(fs.err))
                ELSE pc' = AfterExtract /\ UNCHANGED result
  /\ UNCHANGED <<configFile, tomlFile, cache, tmpFiles, received, downloadDir, cfg, start, prev, runs>>
  /\ Fixed

\* configure<Tool>: ./configure in cfg.buildDir writes the Makefile.
Configure(succeeds) ==
  /\ pc = "configure"
  /\ trace' = Append(trace, "configure")
  /\ IF canConfigure(files, cfg) /\ succeeds
     THEN /\ files' = files \cup {InDir(cfg.buildDir, <<N("Makefile")>>)}
          /\ mtime' = Touched(mtime, dirs,
                              {InDir(cfg.buildDir, <<N("Makefile")>>)} \ files)
          /\ pc' = "build"
          /\ UNCHANGED result
     ELSE /\ Finish(Failed("configure failed"))
          /\ UNCHANGED <<files, mtime>>
  /\ UNCHANGED <<configFile, tomlFile, dirs, cache, tmpFiles, received, downloadDir, cfg, written, start,
                 prev, runs>>
  /\ Fixed

\* make<Tool>, buildCapnpcGo, makeBpfAsm: the command builds the executable
\* below cfg.buildDir.
Build(succeeds) ==
  /\ pc = "build"
  /\ trace' = Append(trace, "build")
  /\ IF canBuild(tool, files, cfg) /\ succeeds
     THEN /\ files' = files \cup {InDir(cfg.buildDir, BuiltBinary(tool))}
          /\ dirs' = dirs \cup Ancestors(Parent(InDir(cfg.buildDir, BuiltBinary(tool))))
          /\ mtime' = Touched(mtime, dirs',
                              (dirs' \ dirs) \cup
                                ({InDir(cfg.buildDir, BuiltBinary(tool))} \ files))
          /\ pc' = "record"
          /\ UNCHANGED result
     ELSE /\ Finish(Failed("build failed"))
          /\ UNCHANGED <<files, dirs, mtime>>
  /\ UNCHANGED <<configFile, tomlFile, cache, tmpFiles, received, downloadDir, cfg, written, start, prev, runs>>
  /\ Fixed

\* update<Tool>ToolchainToml with the executable and the effective version.
Record ==
  /\ pc = "record"
  /\ trace' = Append(trace, "record")
  /\ tomlFile' = updateToolchainToml(tomlFile, tool,
                   toolchainTomlExecutable(tool, ToolChainDir, cfg), cfg.version)
  /\ mtime' = Touched(mtime, dirs,
                      IF tomlFile.exists THEN {}
                      ELSE {ToolChainRoot \o <<N("toolchain.toml")>>})
  /\ Finish(Ok)
  /\ UNCHANGED <<configFile, files, dirs, cache, tmpFiles, received, downloadDir, cfg, written, start, prev, runs>>
  /\ Fixed

Next ==
  \/ \E c \in ConfigFiles(tool, tomlFile, goExecutable),
          lost \in Losses(tool, files) : Start(c, lost)
  \/ \E response \in Responses : Download(response)
  \/ VerifySize
  \/ VerifySha
  \/ Extract
  \/ \E succeeds \in BOOLEAN : Configure(succeeds)
  \/ \E succeeds \in BOOLEAN : Build(succeeds)
  \/ Record

Spec == Init /\ [][Next]_vars

(***************************************************************************)
(* The extraction of one archive, entry by entry.  The run is the first    *)
(* installation of the tool in a checkout that the bootstrap script has    *)
(* prepared: the download is in the cache and has passed both checks, and  *)
(* extractTar is about to read the archive.                                *)
(***************************************************************************)
\* The number of entries of an archive.
MaxEntries == 3

\* The entries that an archive may hold: the top directory that the version
\* announces, a directory and a file in it, a directory and a file below
\* another top directory, a file whose name climbs out of the top
\* directory, a symbolic link, a PAX global header and an entry of a type
\* that extractTar does not know.  The directories of the release carry either time.
\* What the kernel's archive may hold besides: the directory tools, the
\* directory tools/bpf and a file in it, and a regular file named tools.
LinuxEntries(version) ==
  {Dir(<<TarDir("bpfasm", version), N("tools")>>),
   Dir(<<TarDir("bpfasm", version), N("tools"), N("bpf")>>),
   Reg(<<TarDir("bpfasm", version), N("tools"), N("bpf"), N("Makefile")>>),
   Reg(<<TarDir("bpfasm", version), N("tools")>>)}

ArchiveEntries(t, version) ==
  (IF t = "bpfasm" THEN LinuxEntries(version) ELSE {}) \cup
  {Dir(<<TarDir(t, version)>>),
   At(Dir(<<TarDir(t, version)>>), T2),
   Dir(<<TarDir(t, version), N("sub")>>),
   At(Dir(<<TarDir(t, version), N("sub")>>), T2),
   Reg(<<TarDir(t, version), N("README")>>),
   Dir(<<OtherTop(t)>>),
   Reg(<<OtherTop(t), N("README")>>),
   Reg(<<TarDir(t, version), DotDot, DotDot, N("evil")>>),
   Symlink(<<TarDir(t, version), N("link")>>),
   GlobalHeader(<<N("pax_global_header")>>),
   Other(<<TarDir(t, version), N("link")>>)}

\* An archive lists a name with one modification time.
OneTimePerName(archive) ==
  \A i, j \in DOMAIN archive :
    archive[i].name = archive[j].name /\ archive[i].type = archive[j].type
    => archive[i].ModTime = archive[j].ModTime

Archives(t, version) ==
  {archive \in UNION {[1..n -> ArchiveEntries(t, version)] : n \in 1..MaxEntries} :
     OneTimePerName(archive)}

InitExtract ==
  /\ tool \in Tools
  /\ ToolChainDir \in {RelToolChainDir, AbsToolChainDir}
  /\ downloadsFile = [PreferredVersion |-> "v1", Files |-> {"v1", "v2"}]
  /\ upstream = "good"
  /\ goExecutable = ExtGo
  /\ privileged \in BOOLEAN
  /\ tomlFile = create_toolchain_toml(NoFile)
  /\ files = InitFiles \cup ScriptGoFiles
  /\ dirs = InitDirs \cup ScriptGoDirs
  /\ configFile = EmptyConfigFile
  /\ cache = [v \in Versions |-> IF v = "v1" THEN "genuine" ELSE "absent"]
  /\ tmpFiles = 0
  /\ received = NoResponse
  /\ downloadDir = FALSE
  /\ pc = "extract"
  /\ cfg = getToolConfig(tool, BuildConfiguration(tool, ToolChainDir,
                                 EmptyConfigFile, downloadsFile, tomlFile))
  /\ trace = <<>>
  /\ written = {}
  /\ pending \in Archives(tool, "v1")
  /\ start = [toml |-> tomlFile, cache |-> cache, files |-> files, lost |-> {},
              downloadDir |-> downloadDir, archive |-> pending]
  /\ prev = [toml |-> tomlFile, configFile |-> EmptyConfigFile, result |-> NoResult,
             trace |-> <<>>]
  /\ result = NoResult
  /\ runs = 1
  /\ mtime = [d \in dirs |-> Old]
  /\ dirTimes = <<>>

\* What became of an entry: extractTar returned an error, the entry was
\* created at its destination, the filter turned it down, or its type is
\* one that extractTar passes over.
Outcome(entry, fs) ==
  IF fs.err # "none" THEN "failed"
  ELSE IF entry.type \notin {"dir", "reg"} THEN "ignored"
  ELSE IF filter(tool, cfg, entry) THEN "written" ELSE "rejected"

\* tarReader.Next() returns an entry: one iteration of extractTar's loop.
ReadEntry ==
  /\ pc = "extract"
  /\ pending # <<>>
  /\ LET fs == extractEntry(tool, ToolChainDir, cfg,
                            [files |-> files, dirs |-> dirs,
                             written |-> written, err |-> "none",
                             mtime |-> mtime, dirTimes |-> dirTimes],
                            Head(pending), privileged)
     IN /\ files' = fs.files
        /\ dirs' = fs.dirs
        /\ mtime' = fs.mtime
        /\ dirTimes' = fs.dirTimes
        /\ written' = fs.written
        /\ trace' = Append(trace, Outcome(Head(pending), fs))
        /\ IF fs.err # "none" THEN Finish(Failed(fs.err))
           ELSE UNCHANGED <<pc, result>>
  /\ pending' = Tail(pending)
  /\ UNCHANGED <<tool, ToolChainDir, downloadsFile, upstream, goExecutable,
                 privileged, configFile, tomlFile, cache, tmpFiles, received, downloadDir, cfg, start,
                 prev, runs>>

\* tarReader.Next() returns io.EOF: extractTar restores the times of the
\* directories and returns.
ReadEOF ==
  /\ pc = "extract"
  /\ pending = <<>>
  /\ LET fs == restoreDirTimes([files |-> files, dirs |-> dirs,
                                written |-> written, err |-> "none",
                                mtime |-> mtime, dirTimes |-> dirTimes],
                               privileged)
     IN /\ mtime' = fs.mtime
        /\ dirTimes' = fs.dirTimes
        /\ Finish(IF fs.err # "none" THEN Failed(fs.err) ELSE Ok)
  /\ UNCHANGED <<tool, ToolChainDir, downloadsFile, upstream, goExecutable,
                 privileged, configFile, tomlFile, files, dirs, cache, tmpFiles, received, downloadDir,
                 cfg, trace, written, start, prev, runs, pending>>

NextExtract ==
  \/ ReadEntry
  \/ ReadEOF

SpecExtract == InitExtract /\ [][NextExtract]_vars

(***************************************************************************)
(* The recording steps of several tools on one toolchain.toml              *)
(* (SpecRegistry).  update<Tool>ToolchainToml reads the file, sets its     *)
(* entry in the decoded registry, and WriteToolchainToml creates the file  *)
(* anew (os.Create truncates it) and encodes the registry into it.  No     *)
(* lock is taken, so the three steps of one tool can fall between those    *)
(* of another.  pc, cfg and trace are here per writer: the step each has   *)
(* reached, the registry it holds in memory, and the steps taken.          *)
(***************************************************************************)
\* The number of tools that record in a behaviour.
MaxWriters == 2

\* A variant that sets the entry in a new registry.
setToolEntryInNew(top, t, executable, version) ==
  [NewToolchainTomlTopLevel EXCEPT ![t] = ToolchainTomlTool(executable, version)]

\* toolchainTomlTopLevel.<Tool> = new(ToolchainTomlTool) if it is nil, then
\* the assignments of Executable and Version.
setToolEntry(top, t, executable, version) ==
  [top EXCEPT ![t] = ToolchainTomlTool(executable, version)]

\* os.Create and the three comment lines: a file without tables.
CreatedFile == [exists |-> TRUE, tables |-> [t \in RegTools |-> NoTable]]

\* The registries that the recording steps may find: none, the one of the
\* bootstrap script, and that one with an entry of version v1 for a tool.
RegistryFiles ==
  {NoFile, create_toolchain_toml(NoFile)}
    \cup {updateToolchainToml(create_toolchain_toml(NoFile), t,
            Rel(<<<<VersionedDirPrefix(t), "v1">>>> \o BinaryPath(t)), "v1") :
          t \in Tools}

\* The entry that a tool records for a version.
NewEntry(t, version) ==
  ToolchainTomlTool(Rel(<<<<VersionedDirPrefix(t), version>>>> \o BinaryPath(t)),
                    version)

InitRegistry ==
  /\ tool = "go"
  /\ ToolChainDir = RelToolChainDir
  /\ downloadsFile = [PreferredVersion |-> "v1", Files |-> {"v1", "v2"}]
  /\ upstream = "good"
  /\ goExecutable = ExtGo
  /\ privileged = FALSE
  /\ tomlFile \in RegistryFiles
  /\ files = InitFiles
  /\ dirs = InitDirs
  /\ configFile = EmptyConfigFile
  /\ cache = [v \in Versions |-> "absent"]
  /\ tmpFiles = 0
  /\ received = NoResponse
  /\ downloadDir = FALSE
  /\ \E writers \in SUBSET Tools :
       /\ Cardinality(writers) \in 2..MaxWriters
       /\ \E entry \in [writers -> Versions] :
            start = [toml |-> tomlFile, writers |-> writers,
                     entry |-> [w \in writers |-> NewEntry(w, entry[w])]]
       /\ pc = [w \in writers |-> "start"]
       /\ cfg = [w \in writers |-> NewToolchainTomlTopLevel]
  /\ trace = <<>>
  /\ written = {}
  /\ pending = <<>>
  /\ prev = [toml |-> tomlFile, configFile |-> EmptyConfigFile, result |-> NoResult,
             trace |-> <<>>]
  /\ result = NoResult
  /\ runs = 0
  /\ mtime = [d \in dirs |-> Old]
  /\ dirTimes = <<>>

\* What the recording steps leave alone.
FixedRegistry ==
  UNCHANGED <<tool, ToolChainDir, downloadsFile, upstream, goExecutable,
              privileged, configFile, files, dirs, cache, tmpFiles, received,
              downloadDir, written, start, prev, result, runs, pending, mtime,
              dirTimes>>

\* update<Tool>ToolchainToml up to the call of WriteToolchainToml: the file
\* is read and the tool's entry is set in the decoded registry.
RegistryRead(w) ==
  /\ pc[w] = "start"
  /\ cfg' = [cfg EXCEPT ![w] = setToolEntry(toolchainTomlOrNew(tomlFile), w,
                                            start.entry[w].Executable,
                                            start.entry[w].Version)]
  /\ pc' = [pc EXCEPT ![w] = "read"]
  /\ trace' = Append(trace, <<w, "read">>)
  /\ UNCHANGED tomlFile
  /\ FixedRegistry

\* WriteToolchainToml: os.Create truncates the file and the comment lines
\* are written.
RegistryCreate(w) ==
  /\ pc[w] = "read"
  /\ tomlFile' = CreatedFile
  /\ pc' = [pc EXCEPT ![w] = "created"]
  /\ trace' = Append(trace, <<w, "create">>)
  /\ UNCHANGED cfg
  /\ FixedRegistry

\* A variant that encodes, with its registry, the entries of the tools
\* that have finished recording.
RegistryEncodeMerged(w) ==
  /\ pc[w] = "created"
  /\ tomlFile' = WriteToolchainToml(
                   [t \in RegTools |->
                      IF t \in start.writers /\ t # w /\ pc[t] = "done"
                      THEN start.entry[t] ELSE cfg[w][t]])
  /\ pc' = [pc EXCEPT ![w] = "done"]
  /\ trace' = Append(trace, <<w, "encode">>)
  /\ UNCHANGED cfg
  /\ FixedRegistry

\* WriteToolchainToml: the registry in memory is encoded into the file.
RegistryEncode(w) ==
  /\ pc[w] = "created"
  /\ tomlFile' = WriteToolchainToml(cfg[w])
  /\ pc' = [pc EXCEPT ![w] = "done"]
  /\ trace' = Append(trace, <<w, "encode">>)
  /\ UNCHANGED cfg
  /\ FixedRegistry

NextRegistry ==
  \/ \E w \in start.writers : RegistryRead(w)
  \/ \E w \in start.writers : RegistryCreate(w)
  \/ \E w \in start.writers : RegistryEncode(w)

SpecRegistry == InitRegistry /\ [][NextRegistry]_vars

(***************************************************************************)
(* GenerateCapnp over the globbed schema files (SpecGenerate).  pending    *)
(* holds the files still to process, each with what the two commands will  *)
(* do on it; trace holds what was done to each file, written the files     *)
(* whose Go code was generated, result the messages and the error that     *)
(* GenerateCapnp returns.                                                  *)
(***************************************************************************)
\* The number of schema files that the glob may find.
MaxSchemas == 3

\* A schema file: whether `capnp compile` exits with 0 on it, and whether
\* the capnpc-go plugin does.
Schemas == [capnp : BOOLEAN, plugin : BOOLEAN]

SchemaLists == UNION {[1..n -> Schemas] : n \in 0..MaxSchemas}

InitGenerate ==
  /\ tool = "gocapnp"
  /\ ToolChainDir = RelToolChainDir
  /\ downloadsFile = [PreferredVersion |-> "v1", Files |-> {"v1", "v2"}]
  /\ upstream = "good"
  /\ goExecutable = ExtGo
  /\ privileged = FALSE
  /\ tomlFile = create_toolchain_toml(NoFile)
  /\ files = InitFiles
  /\ dirs = InitDirs
  /\ configFile = EmptyConfigFile
  /\ cache = [v \in Versions |-> "absent"]
  /\ tmpFiles = 0
  /\ received = NoResponse
  /\ downloadDir = FALSE
  /\ pc = "generate"
  /\ cfg = NoToolConfig
  /\ trace = <<>>
  /\ written = {}
  /\ pending \in SchemaLists
  /\ start = [schemas |-> pending]
  /\ prev = [toml |-> tomlFile, configFile |-> EmptyConfigFile, result |-> NoResult,
             trace |-> <<>>]
  /\ result = [status |-> "none", err |-> "none", messages |-> <<>>]
  /\ runs = 1
  /\ mtime = [d \in dirs |-> Old]
  /\ dirTimes = <<>>

FixedGenerate ==
  UNCHANGED <<tool, ToolChainDir, downloadsFile, upstream, goExecutable,
              privileged, configFile, tomlFile, files, dirs, cache, tmpFiles,
              received, downloadDir, cfg, start, prev, runs, mtime, dirTimes>>

\* The position of the file at the head of pending in the globbed list.
Position == Len(start.schemas) - Len(pending) + 1

\* One iteration of the loop: codeGeneratorRequestWithCapnp, whose error
\* makes GenerateCapnp return with a message, then writeGoCapnpFileWithCGR,
\* whose error is dropped.
GenerateFile ==
  /\ pc = "generate"
  /\ pending # <<>>
  /\ IF ~Head(pending).capnp
     THEN /\ trace' = Append(trace, "capnp failed")
          /\ result' = [status |-> "error", err |-> "capnp failed",
                        messages |-> Append(result.messages,
                                            <<"Failed to create CodeGeneratorRequest",
                                              Position>>)]
          /\ pc' = "idle"
          /\ UNCHANGED written
     ELSE /\ trace' = Append(trace, IF Head(pending).plugin THEN "generated"
                                    ELSE "plugin failed")
          /\ written' = written \cup
                          (IF Head(pending).plugin THEN {Position} ELSE {})
          /\ UNCHANGED <<result, pc>>
  /\ pending' = Tail(pending)
  /\ FixedGenerate

\* The loop has ended: GenerateCapnp returns its messages and no error.
GenerateReturn ==
  /\ pc = "generate"
  /\ pending = <<>>
  /\ result' = [result EXCEPT !.status = "ok"]
  /\ pc' = "idle"
  /\ UNCHANGED <<trace, written, pending>>
  /\ FixedGenerate

NextGenerate ==
  \/ GenerateFile
  \/ GenerateReturn

SpecGenerate == InitGenerate /\ [][NextGenerate]_vars

(***************************************************************************)
(* What the smaller specifications below leave as the bootstrap script     *)
(* left it: the installation's files, an empty cache, no run in progress.  *)
(***************************************************************************)
QuietInit ==
  /\ ToolChainDir = RelToolChainDir
  /\ downloadsFile = [PreferredVersion |-> "v1", Files |-> {"v1", "v2"}]
  /\ upstream = "good"
  /\ goExecutable = ExtGo
  /\ privileged = FALSE
  /\ files = InitFiles
  /\ dirs = InitDirs
  /\ configFile = EmptyConfigFile
  /\ cache = [v \in Versions |-> "absent"]
  /\ tmpFiles = 0
  /\ received = NoResponse
  /\ downloadDir = FALSE
  /\ written = {}
  /\ pending = <<>>
  /\ prev = [toml |-> NoFile, configFile |-> EmptyConfigFile, result |-> NoResult,
             trace |-> <<>>]
  /\ runs = 1
  /\ mtime = [d \in dirs |-> Old]
  /\ dirTimes = <<>>

QuietFixed ==
  UNCHANGED <<ToolChainDir, downloadsFile, upstream, goExecutable, privileged,
              files, dirs, configFile, cache, tmpFiles, received, downloadDir,
              written, pending, prev, runs, mtime, dirTimes>>

(***************************************************************************)
(* The commands that the orchestrators run (SpecCommands): the arguments   *)
(* of bpf_asm's make and the environment of go-capnp's go build.  start    *)
(* holds the runtime configuration of Bison and Flex and the environment   *)
(* of the build-tool, cfg the tool's configuration, result the command.    *)
(***************************************************************************)
\* A command name that the shell looks up in PATH.
Bare(name) == Rel(<<N(name)>>)

\* What the runtime configuration may hold for Bison or Flex: the user's
\* Executable (none, the bare name, a path) and the registry's.
DependencyConfigs(bare, t) ==
  [Executable : {EmptyPath, Bare(bare), ExtPresent},
   toolchainExecutable :
     {EmptyPath,
      Join(RelToolChainDir, Rel(<<<<VersionedDirPrefix(t), "v1">>>> \o BinaryPath(t)))}]

\* buildToolConfig.Executables.goPath.
IsolatedGoPath == "toolchain/gopath-go1.25.3"

\* os.Environ(): each name once, GOPATH absent, set to a path of the user
\* or set to the isolated path.
Environs ==
  {gopath \o rest :
     gopath \in {<<>>, <<<<"GOPATH", "/home/user/go">>>>,
                 <<<<"GOPATH", IsolatedGoPath>>>>},
     rest \in {<<>>, <<<<"HOME", "/home/user">>>>,
               <<<<"PATH", "/usr/bin">>, <<"HOME", "/home/user">>>>}}

InitCommands ==
  /\ QuietInit
  /\ tool \in {"bpfasm", "gocapnp"}
  /\ tomlFile = create_toolchain_toml(NoFile)
  /\ \E bison \in DependencyConfigs("bison", "bison"),
        flex \in DependencyConfigs("flex", "flex"),
        environ \in Environs :
       start = [Bison |-> bison, Flex |-> flex, environ |-> environ]
  /\ cfg = NoToolConfig
  /\ pc = "config"
  /\ trace = <<>>
  /\ result = NoResult

FixedCommands == QuietFixed /\ UNCHANGED <<tool, tomlFile, start>>

\* getBpfAsmConfig and getGoCapnpConfig: the executables and the go path
\* of the tool's configuration.
GetConfig ==
  /\ pc = "config"
  /\ trace' = Append(trace, "config")
  /\ IF tool = "bpfasm"
     THEN IF dependencyExecutable(start.Bison) = EmptyPath
          THEN /\ result' = Failed("Unable to find Bison executable")
               /\ pc' = "idle"
               /\ UNCHANGED cfg
          ELSE IF dependencyExecutable(start.Flex) = EmptyPath
          THEN /\ result' = Failed("Unable to find Flex executable")
               /\ pc' = "idle"
               /\ UNCHANGED cfg
          ELSE /\ cfg' = [bisonExecutable |-> dependencyExecutable(start.Bison),
                          flexExecutable |-> dependencyExecutable(start.Flex)]
               /\ pc' = "make"
               /\ UNCHANGED result
     ELSE /\ cfg' = [goExecutable |-> goExecutable, goPath |-> IsolatedGoPath]
          /\ pc' = "build"
          /\ UNCHANGED result
  /\ FixedCommands

\* An argument of a command: a word, or a variable with its value.
Word(w) == <<"", w>>

\* A variant that always names the lexer.
makeBpfAsmArgsWithLex(config) ==
  <<Word("make"), <<"LEX", config.flexExecutable>>>>
    \o (IF config.bisonExecutable # Bare("bison")
        THEN <<<<"YACC", config.bisonExecutable>>>> ELSE <<>>)
    \o <<Word("bpf_asm")>>

\* makeBpfAsm: cmd.Args.
makeBpfAsmArgs(config) ==
  <<Word("make")>>
    \o (IF config.flexExecutable # Bare("flex")
        THEN <<<<"LEX", config.flexExecutable>>>> ELSE <<>>)
    \o (IF config.bisonExecutable # Bare("bison")
        THEN <<<<"YACC", config.bisonExecutable>>>> ELSE <<>>)
    \o <<Word("bpf_asm")>>

\* makeBpfAsm.
MakeBpfAsm ==
  /\ pc = "make"
  /\ result' = [status |-> "ok", err |-> "none", Args |-> makeBpfAsmArgs(cfg)]
  /\ trace' = Append(trace, "make")
  /\ pc' = "idle"
  /\ UNCHANGED cfg
  /\ FixedCommands

\* The entries of the environment whose name is not the one given.
Without(environ, name) == SelectSeq(environ, LAMBDA envLine : envLine[1] # name)

\* A variant that does not append the GOPATH of the configuration.
capnpcGoEnvInherited(environ, config) == environ \o Without(environ, "GOPATH")

\* buildCapnpcGo: cmd.Env is the environment, then its entries other than
\* GOPATH once more, then GOPATH=config.goPath.
capnpcGoEnv(environ, config) ==
  environ \o Without(environ, "GOPATH") \o <<<<"GOPATH", config.goPath>>>>

\* cmd.Run: os/exec starts the process with the last entry of each name.
RECURSIVE dedupEnv(_)
dedupEnv(env) ==
  IF env = <<>> THEN <<>>
  ELSE (IF \E j \in 2..Len(env) : env[j][1] = env[1][1] THEN <<>> ELSE <<env[1]>>)
         \o dedupEnv(Tail(env))

\* buildCapnpcGo.
BuildCapnpcGo ==
  /\ pc = "build"
  /\ result' = [status |-> "ok", err |-> "none",
                Env |-> capnpcGoEnv(start.environ, cfg),
                Process |-> dedupEnv(capnpcGoEnv(start.environ, cfg))]
  /\ trace' = Append(trace, "build")
  /\ pc' = "idle"
  /\ UNCHANGED cfg
  /\ FixedCommands

NextCommands ==
  \/ GetConfig
  \/ MakeBpfAsm
  \/ BuildCapnpcGo

SpecCommands == InitCommands /\ [][NextCommands]_vars

(***************************************************************************)
(* scripts/bootstrap-build-tool.sh (SpecScript).  pc is the function the   *)
(* script is in; cfg holds the file at the Go release's path in the        *)
(* download cache, backoff_delay and the number of retries; trace holds    *)
(* the steps taken, each with a number (the delay of a wait, else 0);      *)
(* result holds the exit status.                                           *)
(***************************************************************************)
\* The number of times the operator may ask for another attempt.
MaxRetries == 6

\* retryable_curl: the first delay and the longest.
first_delay == 1

max_delay == 5

\* ${toolchain_dir}/go-${go_version}
go_install_dir == ToolChainRoot \o <<<<"go-", "1.25.3">>>>

\* The registries that the script may find: none, its own, that of an
\* earlier release of the script with another Go, and one that the
\* build-tool wrote on a checkout without a registry.
ScriptRegistries ==
  {NoFile,
   create_toolchain_toml(NoFile),
   WriteToolchainToml([NewToolchainTomlTopLevel EXCEPT
      !["go"] = ToolchainTomlTool(Rel(<<<<"go-", "1.24.0">>, N("bin"), N("go")>>),
                                  "1.24.0")]),
   updateToolchainToml(NoFile, "bison",
      Rel(<<<<VersionedDirPrefix("bison"), "v1">>>> \o BinaryPath("bison")), "v1")}

\* A step of the script as the trace keeps it.
Step(name) == <<name, 0>>

\* exit "$status"
Exit(status) == [status |-> "exit", err |-> status]

InitScript ==
  /\ QuietInit
  /\ tool = "go"
  /\ tomlFile \in ScriptRegistries
  /\ \E downloaded \in {"absent", "directory", "genuine", "flipped"},
        installed \in BOOLEAN :
       /\ cfg = [downloaded |-> downloaded, backoff_delay |-> first_delay,
                 retries |-> 0, installed |-> installed]
       /\ start = [toml |-> tomlFile, downloaded |-> downloaded,
                   installed |-> installed]
  /\ pc = "check_for_existing_installation"
  /\ trace = <<>>
  /\ result = NoResult

FixedScript == QuietFixed /\ UNCHANGED <<tool, start>>

\* fail: the message is printed and the script exits.
Fail(status) ==
  /\ pc' = "idle"
  /\ result' = Exit(status)

\* check_for_existing_installation "${go_install_dir}"
check_for_existing_installation ==
  /\ pc = "check_for_existing_installation"
  /\ trace' = Append(trace, Step("check"))
  /\ IF cfg.installed THEN Fail(16)
     ELSE pc' = "download_go" /\ UNCHANGED result
  /\ UNCHANGED <<cfg, tomlFile>>
  /\ FixedScript

\* download_go up to the call of retryable_curl.
download_go ==
  /\ pc = "download_go"
  /\ trace' = Append(trace, Step("download_go"))
  /\ IF cfg.downloaded \in {"genuine", "flipped"}
     THEN pc' = "verify_sha256" /\ UNCHANGED result
     ELSE IF cfg.downloaded # "absent" THEN Fail(3)
     ELSE pc' = "curl" /\ UNCHANGED result
  /\ UNCHANGED <<cfg, tomlFile>>
  /\ FixedScript

\* retryable_curl: curl writes to the path; if it succeeds, download_go
\* finds the file and goes on to the check of its SHA-256.
curl(outcome) ==
  /\ pc = "curl"
  /\ trace' = Append(trace, Step("curl"))
  /\ cfg' = [cfg EXCEPT !.downloaded = outcome]
  /\ pc' = IF outcome = "partial" THEN "prompt_yesno" ELSE "verify_sha256"
  /\ UNCHANGED <<result, tomlFile>>
  /\ FixedScript

\* A variant that lets the delay grow without limit.
nextDelayUncapped(backoff_delay) == backoff_delay + 1

\* backoff_delay=$((backoff_delay + 1)), and max_delay if that is greater.
nextDelay(backoff_delay) ==
  IF backoff_delay + 1 > max_delay THEN max_delay ELSE backoff_delay + 1

\* prompt_yesno and what retryable_curl does with the answer: it waits and
\* calls itself with the next delay, or removes the file; download_go then
\* finds no file and fails.
prompt_yesno(yes) ==
  /\ pc = "prompt_yesno"
  /\ IF yes
     THEN /\ cfg.retries < MaxRetries
          /\ trace' = trace \o <<Step("yes"), <<"wait_delay", cfg.backoff_delay>>>>
          /\ cfg' = [cfg EXCEPT !.backoff_delay = nextDelay(cfg.backoff_delay),
                                !.retries = @ + 1]
          /\ pc' = "curl"
          /\ UNCHANGED result
     ELSE /\ trace' = trace \o <<Step("no"), Step("rm")>>
          /\ cfg' = [cfg EXCEPT !.downloaded = "absent"]
          /\ Fail(18)
  /\ UNCHANGED tomlFile
  /\ FixedScript

\* verify_sha256 "${go_expected_sha256}" "${go_downloaded_file}"
verify_sha256 ==
  /\ pc = "verify_sha256"
  /\ trace' = Append(trace, Step("verify_sha256"))
  /\ IF cfg.downloaded = "genuine"
     THEN pc' = "extract_go" /\ UNCHANGED result
     ELSE Fail(1)
  /\ UNCHANGED <<cfg, tomlFile>>
  /\ FixedScript

\* extract_go: the install directory is made, then gunzip and tar run.
extract_go(succeeds) ==
  /\ pc = "extract_go"
  /\ trace' = Append(trace, Step("extract_go"))
  /\ cfg' = [cfg EXCEPT !.installed = TRUE]
  /\ IF succeeds
     THEN pc' = "create_toolchain_toml" /\ UNCHANGED result
     ELSE Fail(15)
  /\ UNCHANGED tomlFile
  /\ FixedScript

\* create_toolchain_toml, the last command of the script.
CreateToolchainToml ==
  /\ pc = "create_toolchain_toml"
  /\ trace' = Append(trace, Step("create_toolchain_toml"))
  /\ tomlFile' = create_toolchain_toml(tomlFile)
  /\ Fail(0)
  /\ UNCHANGED cfg
  /\ FixedScript

NextScript ==
  \/ check_for_existing_installation
  \/ download_go
  \/ \E outcome \in {"partial", "genuine", "flipped"} : curl(outcome)
  \/ \E yes \in BOOLEAN : prompt_yesno(yes)
  \/ verify_sha256
  \/ \E succeeds \in BOOLEAN : extract_go(succeeds)
  \/ CreateToolchainToml

SpecScript == InitScript /\ [][NextScript]_vars

(***************************************************************************)
(* runJobs of make.go (SpecJobs).  pc.main is the loop that runJobs is in  *)
(* and pc.job the state of each job's goroutine; cfg holds the loop index  *)
(* and errs; start holds what each job's function returns; result is what  *)
(* becomes of the process.                                                 *)
(***************************************************************************)
\* The number of jobs that runJobs is given.
MaxJobs == 3

\* What the functions of the jobs return, in job order.
JobLists == UNION {[1..n -> {"nil", "error"}] : n \in 1..MaxJobs}

InitJobs ==
  /\ QuietInit
  /\ tool = "go"
  /\ tomlFile = NoFile
  /\ \E jobs \in JobLists :
       /\ start = [jobs |-> jobs]
       /\ pc = [main |-> "spawn", job |-> [j \in DOMAIN jobs |-> "unspawned"]]
       /\ cfg = [i |-> 1, errs |-> [j \in DOMAIN jobs |-> "unset"]]
  /\ trace = <<>>
  /\ result = NoResult

FixedJobs == QuietFixed /\ UNCHANGED <<tool, tomlFile, start>>

\* The loop index after an iteration, and the loop on reaching the end.
Advance(loop, next) ==
  IF cfg.i = Len(start.jobs) THEN [main |-> next, i |-> 1]
  ELSE [main |-> loop, i |-> cfg.i + 1]

\* chans[i] = spawnErr(jobs[i]): the goroutine is started.
Spawn ==
  /\ pc.main = "spawn"
  /\ pc' = [main |-> Advance("spawn", "receive").main,
            job |-> [pc.job EXCEPT ![cfg.i] = "running"]]
  /\ cfg' = [cfg EXCEPT !.i = Advance("spawn", "receive").i]
  /\ trace' = Append(trace, <<"spawn", cfg.i>>)
  /\ UNCHANGED result
  /\ FixedJobs

\* The goroutine of spawnErr: fn() returns and the goroutine is at the send.
JobReturns(j) ==
  /\ pc.job[j] = "running"
  /\ pc' = [pc EXCEPT !.job[j] = "sending"]
  /\ trace' = Append(trace, <<"return", j>>)
  /\ UNCHANGED <<cfg, result>>
  /\ FixedJobs

\* A variant that reports the error as soon as it is received.
ReceiveAndCheck ==
  /\ pc.main = "receive"
  /\ pc.job[cfg.i] = "sending"
  /\ trace' = Append(trace, <<"receive", cfg.i>>)
  /\ IF start.jobs[cfg.i] = "error"
     THEN /\ pc' = [main |-> "exited", job |-> [pc.job EXCEPT ![cfg.i] = "done"]]
          /\ cfg' = [cfg EXCEPT !.errs[cfg.i] = start.jobs[cfg.i]]
          /\ result' = [status |-> "exit", err |-> 1, job |-> cfg.i]
     ELSE /\ pc' = [main |-> Advance("receive", "check").main,
                    job |-> [pc.job EXCEPT ![cfg.i] = "done"]]
          /\ cfg' = [i |-> Advance("receive", "check").i,
                     errs |-> [cfg.errs EXCEPT ![cfg.i] = start.jobs[cfg.i]]]
          /\ UNCHANGED result
  /\ FixedJobs

\* errs[i] = <-chans[i]: the channel is unbuffered, so the send of the
\* goroutine and the receive of runJobs are one step.
Receive ==
  /\ pc.main = "receive"
  /\ pc.job[cfg.i] = "sending"
  /\ pc' = [main |-> Advance("receive", "check").main,
            job |-> [pc.job EXCEPT ![cfg.i] = "done"]]
  /\ cfg' = [i |-> Advance("receive", "check").i,
             errs |-> [cfg.errs EXCEPT ![cfg.i] = start.jobs[cfg.i]]]
  /\ trace' = Append(trace, <<"receive", cfg.i>>)
  /\ UNCHANGED result
  /\ FixedJobs

\* chkfatal(errs[i]): log.Fatal ends the process on an error; after the
\* last iteration runJobs returns.
Chkfatal ==
  /\ pc.main = "check"
  /\ trace' = Append(trace, <<"chkfatal", cfg.i>>)
  /\ IF cfg.errs[cfg.i] # "nil"
     THEN /\ pc' = [pc EXCEPT !.main = "exited"]
          /\ result' = [status |-> "exit", err |-> 1, job |-> cfg.i]
          /\ UNCHANGED cfg
     ELSE /\ pc' = [pc EXCEPT !.main = Advance("check", "returned").main]
          /\ cfg' = [cfg EXCEPT !.i = Advance("check", "returned").i]
          /\ result' = IF cfg.i = Len(start.jobs) THEN Ok ELSE result
  /\ FixedJobs

NextJobs ==
  \/ Spawn
  \/ \E j \in DOMAIN start.jobs : JobReturns(j)
  \/ Receive
  \/ Chkfatal

\* The Go scheduler runs every goroutine that can run, and the commands of
\* the jobs end.
SpecJobs ==
  /\ InitJobs
  /\ [][NextJobs]_vars
  /\ WF_vars(Spawn)
  /\ WF_vars(Receive)
  /\ WF_vars(Chkfatal)
  /\ \A j \in 1..MaxJobs : WF_vars(j \in DOMAIN start.jobs /\ JobReturns(j))

(***************************************************************************)
(* Properties of the bootstrap runs (Spec).  start holds the registry, the *)
(* cache and the files as the run in progress found them, prev those of    *)
(* the run before it.                                                      *)
(***************************************************************************)
\* The run in progress has performed the step.
Did(e) == \E i \in DOMAIN trace : trace[i] = e

\* What a reader of the registry finds for a tool.
Entry(file, t) == toolchainTomlOrNew(file)[t]

\* Where a consumer of the registry looks for a recorded executable: an
\* absolute path as it is, a relative one below the toolchain root.
RecordedLoc(p) == IF p.abs THEN Resolve(p) ELSE ToolChainRoot \o Clean(p).segs

\* config.toml has neither an executable nor a version for the tool.
OwnEmpty(c) == c.Executable = EmptyPath /\ c.Version = ""

\* A run has come to its end.
Finished == pc = "idle" /\ runs > 0

\* The tool's versioned install directory below the toolchain root.
InstallDir == ToolChainRoot \o <<<<VersionedDirPrefix(tool), cfg.version>>>>

\* C1: a run whose config.toml names an executable that exists makes no
\* network request, extracts nothing, builds nothing and leaves
\* toolchain.toml as it found it.
OverrideIsPureSkip ==
  (/\ runs > 0
   /\ configFile.Executable # EmptyPath
   /\ fileExistsAtPath(start.files, configFile.Executable))
  => /\ ~Did("download") /\ ~Did("extract") /\ ~Did("configure") /\ ~Did("build")
     /\ tomlFile = start.toml

\* The case of C2: no executable in config.toml, and the registry records
\* the effective version with an executable that exists.
RegistryUpToDate ==
  /\ runs > 0
  /\ configFile.Executable = EmptyPath
  /\ Entry(start.toml, tool).present
  /\ cfg.version # ""
  /\ Entry(start.toml, tool).Version = cfg.version
  /\ RecordedLoc(Entry(start.toml, tool).Executable) \in start.files

\* C2: without an executable override, a registry entry of the effective
\* version whose executable exists makes the run end successfully without a
\* network request, an extraction, a build or a write of the registry.
UpToDateIsSkipped ==
  RegistryUpToDate
  => /\ pc = "idle"
     /\ result = Ok
     /\ trace = <<>>
     /\ tomlFile = start.toml

\* C3: after a successful run that started without a registry entry for the
\* tool and without overrides, the next run with the same configuration,
\* nothing having been removed in between, succeeds and downloads, extracts
\* and builds nothing.
SecondRunIsIdle ==
  (/\ Finished
   /\ runs >= 2
   /\ ~Entry(prev.toml, tool).present
   /\ OwnEmpty(prev.configFile)
   /\ prev.result = Ok
   /\ configFile = prev.configFile
   /\ start.lost = {})
  => /\ result = Ok
     /\ trace = <<>>

IntegrityGate ==
  (/\ runs > 0
   /\ cfg.downloadFile # ""
   /\ cache[cfg.downloadFile] \notin {"absent", "genuine"})
  => /\ ~Did("extract") /\ ~Did("configure") /\ ~Did("build")
     /\ written = {}
     /\ files = start.files

\* A run found in the cache a file of the right size with a changed byte,
\* and ended at the SHA-256 check.
IntegrityGateWitness ==
  /\ Finished
  /\ cfg.downloadFile # ""
  /\ start.cache[cfg.downloadFile] = "flipped"
  /\ trace = <<"verifyFileSize", "verifySha256">>
  /\ result = Failed("unexpected SHA-256")

\* C6: a run in which a step before the recording fails leaves
\* toolchain.toml as it found it.
FailedRunKeepsRegistry ==
  (Finished /\ (result.status # "ok" \/ Did("extract failed")))
  => tomlFile = start.toml

\* C7: after a successful run that recorded the tool, a file exists at the
\* recorded executable, resolved against the toolchain root.
RecordedExecutableExists ==
  (Finished /\ result = Ok /\ Did("record"))
  => RecordedLoc(Entry(tomlFile, tool).Executable) \in files

\* The clean state of C8: no registry entry for the tool, no overrides, an
\* empty download cache.
CleanStart ==
  /\ ~Entry(start.toml, tool).present
  /\ OwnEmpty(configFile)
  /\ \A v \in Versions : start.cache[v] = "absent"

\* The steps of an installation, in order.
InstallSteps ==
  <<"download", "verifyFileSize", "verifySha256", "extract">>
    \o (IF HasConfigure(tool) THEN <<"configure">> ELSE <<>>)
    \o (IF HasBuild(tool) THEN <<"build">> ELSE <<>>)
    \o <<"record">>

\* C8: a successful installation from the clean state performs download,
\* size check, hash check, extraction, build and recording once each and
\* in this order; it extracts into and builds in
\* <toolchain root>/<prefix><version>/ and records
\* {Executable: <prefix><version>/<binary>, Version: <version>}.
CleanInstallOrder ==
  (Finished /\ result = Ok /\ CleanStart /\ Did("record"))
  => /\ trace = InstallSteps
     /\ written # {}
     /\ \A loc \in written : IsUnder(loc, InstallDir)
     /\ HasBuild(tool) => IsUnder(Resolve(cfg.buildDir), InstallDir)
     /\ Entry(tomlFile, tool) =
          ToolchainTomlTool(
            Rel(<<<<VersionedDirPrefix(tool), cfg.version>>>> \o BinaryPath(tool)),
            cfg.version)

(***************************************************************************)
(* Properties of the extraction (SpecExtract).                             *)
(***************************************************************************)
\* C9: for the tools with a prefix filter (all but bpf_asm), an entry that
\* the filter turns down makes the extraction return an error, and no
\* entry after it is written.
RejectionStopsExtraction ==
  \A i \in DOMAIN trace :
    (tool # "bpfasm" /\ trace[i] = "rejected")
    => /\ result.status = "error"
       /\ \A j \in DOMAIN trace : j > i => trace[j] # "written"

\* C10: every file and directory that the extraction creates lies inside
\* the tool's versioned install directory below the toolchain root.
ExtractionContained ==
  \A loc \in written : IsUnder(loc, InstallDir)

\* The directory that an entry of the archive was extracted to.
ExtractedTo(entry) == Resolve(transform(tool, ToolChainDir, cfg, entry))

MissingOverrideIsFatal ==
  (/\ runs > 0
   /\ configFile.Executable # EmptyPath
   /\ ~fileExistsAtPath(start.files, configFile.Executable))
  => /\ pc = "idle"
     /\ result.status \in {"error", "panic"}
     /\ trace = <<>>
     /\ tomlFile = start.toml

\* The run in progress has resolved its configuration: BuildConfiguration,
\* the tool's get<Tool>Config and (for bpf_asm) getLinuxConfig returned no
\* error.
Configured ==
  /\ runs > 0
  /\ cfg # NoToolConfig
  /\ cfg.err = "none"
  /\ ~(pc = "idle" /\ trace = <<>> /\ result.err = NoFileInfoError)

\* The case of C13: no executable in config.toml, and the registry records
\* the tool with another version than the effective one.
RegistryOutOfDate ==
  /\ Configured
  /\ configFile.Executable = EmptyPath
  /\ Entry(start.toml, tool).present
  /\ Entry(start.toml, tool).Version # cfg.version

\* C13: without an executable override, a registry entry of another version
\* than the effective one makes the run go on to the download and the
\* checks instead of ending at the skip decision, and a run that succeeds
\* has verified and extracted the archive and recorded the effective
\* version.
MismatchReinstalls ==
  RegistryOutOfDate
  => /\ pc = "idle" => trace # <<>>
     /\ (pc = "idle" /\ result = Ok)
        => /\ Did("verifyFileSize") /\ Did("verifySha256") /\ Did("extract")
           /\ Entry(tomlFile, tool).Version = cfg.version

\* The case of C14: no executable in config.toml, the registry records the
\* effective version, and there is no file at the recorded executable,
\* whether the recorded path is read from the toolchain root or from the
\* working directory.
RecordedButAbsent ==
  /\ Configured
  /\ configFile.Executable = EmptyPath
  /\ Entry(start.toml, tool).present
  /\ Entry(start.toml, tool).Version = cfg.version
  /\ RecordedLoc(Entry(start.toml, tool).Executable) \notin start.files
  /\ ~fileExistsAtPath(start.files, Entry(start.toml, tool).Executable)

\* C14: without an executable override, a registry entry of the effective
\* version whose executable file is absent makes the run go on to the
\* download step: the run neither skips nor fails before it.
AbsentReinstalls ==
  RecordedButAbsent => (pc = "idle" => trace # <<>>)

\* The last step that the run has taken.
LastStep == trace[Len(trace)]

\* C15: the SHA-256 of the downloaded file is computed only directly after
\* a size check, and only of a file of the expected size; a run that finds
\* a file of another size ends with an error at the size check, and a run
\* that finds another SHA-256 ends with an error at the hash check.
SizeBeforeHash ==
  /\ \A i \in DOMAIN trace :
       trace[i] = "verifySha256"
       => /\ i > 1
          /\ trace[i - 1] = "verifyFileSize"
          /\ FileSize(cache[cfg.downloadFile]) = expectedFileSize
  /\ (/\ Did("verifyFileSize")
      /\ FileSize(cache[cfg.downloadFile]) # expectedFileSize)
     => /\ pc = "idle"
        /\ result.status = "error"
        /\ LastStep = "verifyFileSize"
  /\ (/\ Did("verifySha256")
      /\ Sha256(cache[cfg.downloadFile]) # expectedSha256)
     => /\ pc = "idle"
        /\ result.status = "error"
        /\ LastStep = "verifySha256"

\* A run downloaded a file that is too short and ended at the size check,
\* without computing the SHA-256.
SizeBeforeHashWitness ==
  /\ Finished
  /\ trace = <<"download", "verifyFileSize">>
  /\ cache[cfg.downloadFile] = "truncated"
  /\ result = Failed("unexpected size")

\* The errors of the size check and of the hash check.
VerifyErrors == {Failed("unexpected size"), Failed("unexpected SHA-256")}

\* C16: a run that ends at the size check or at the hash check leaves the
\* file that it checked in the download cache as it was; the next run with
\* the same config.toml makes no network request, ends with the same error
\* at the same check and leaves the cache as it found it.
CorruptCacheKept ==
  /\ (Finished /\ result \in VerifyErrors)
     => /\ cache[cfg.downloadFile] \notin {"absent", "genuine"}
        /\ \A f \in DOMAIN cache :
             (start.cache[f] # "absent" \/ f # cfg.downloadFile)
             => cache[f] = start.cache[f]
  /\ (/\ Finished
      /\ runs >= 2
      /\ prev.result \in VerifyErrors
      /\ configFile = prev.configFile)
     => /\ ~Did("download")
        /\ result = prev.result
        /\ LastStep \in {"verifyFileSize", "verifySha256"}
        /\ cache = start.cache

\* A run downloaded a file with a changed byte and ended at the hash check;
\* the next run with the same config.toml found the file in the cache and
\* ended at the hash check again.
CorruptCacheKeptWitness ==
  /\ Finished
  /\ runs >= 2
  /\ prev.result = Failed("unexpected SHA-256")
  /\ configFile = prev.configFile
  /\ start.cache[cfg.downloadFile] = "flipped"
  /\ trace = <<"verifyFileSize", "verifySha256">>
  /\ result = Failed("unexpected SHA-256")

\* The response was a 2xx status whose body was copied to the end.
FullyStreamed(response) ==
  /\ ~response.err
  /\ response.StatusCode \in 200..299
  /\ response.copied

\* C17: in a run that called downloadUrlToDir, a file at the download path
\* means that the response was a 2xx status whose body was copied to the
\* end, and the file holds that body; after a failed connection, another
\* status or a copy that broke off the run has ended with an error at the
\* download step and there is no file at the download path.
DownloadAtomic ==
  Did("download")
  => /\ cache[cfg.downloadFile] # "absent"
        => /\ FullyStreamed(received)
           /\ cache[cfg.downloadFile] = received.Body
     /\ ~FullyStreamed(received)
        => /\ pc = "idle"
           /\ result.status = "error"
           /\ trace = <<"download">>
           /\ cache[cfg.downloadFile] = "absent"

\* The copy of a body with status 200 broke off: the run ended with the
\* error and the download path holds no file.
DownloadAtomicWitness ==
  /\ Finished
  /\ trace = <<"download">>
  /\ received.StatusCode = 200
  /\ ~received.copied
  /\ result = Failed("copy failed")
  /\ cache[cfg.downloadFile] = "absent"
  /\ tmpFiles > 0

\* C18: a step that fails ends the run with its error and is the last step
\* of the run: a failed extraction is followed by no build and by no
\* recording, a run that ended with an error has recorded nothing, and no
\* step is taken twice in a run.
FailFast ==
  /\ \A i \in DOMAIN trace :
       trace[i] = "extract failed"
       => /\ i = Len(trace)
          /\ pc = "idle"
          /\ result.status = "error"
  /\ (pc = "idle" /\ result.status = "error") => ~Did("record")
  /\ \A i, j \in DOMAIN trace : trace[i] = trace[j] => i = j

\* The version that config.toml and downloads.toml ask for.
AskedVersion ==
  IF configFile.Version # "" THEN configFile.Version
  ELSE downloadsFile.PreferredVersion

ExpectedExecutables ==
  LET entry == Entry(start.toml, tool)
  IN IF configFile.Executable # EmptyPath THEN {configFile.Executable}
     ELSE IF entry.present /\ entry.Version = cfg.version
     THEN {entry.Executable, Abs(entry.Executable)}
     ELSE {EmptyPath}

\* C20: the executable that a run works with is the Executable of
\* config.toml when there is one; otherwise that of toolchain.toml when
\* toolchain.toml records the effective version; otherwise empty.
ExecutableCascade ==
  (runs > 0 /\ cfg # NoToolConfig /\ cfg.err = "none")
  => cfg.executable \in ExpectedExecutables

\* The case of C21: downloads.toml lists no file for the effective version.
NoManifestEntry ==
  /\ runs > 0
  /\ AskedVersion # ""
  /\ AskedVersion \notin downloadsFile.Files

\* C21: when downloads.toml lists no file for the effective version, the
\* run ends with a configuration error without a step: nothing is
\* downloaded, the download directory is not created, nothing is extracted
\* and toolchain.toml is not written.
NoManifestEntryIsFatal ==
  NoManifestEntry
  => /\ pc = "idle"
     /\ result.status \in {"error", "panic"}
     /\ trace = <<>>
     /\ downloadDir = start.downloadDir
     /\ cache = start.cache
     /\ files = start.files
     /\ tomlFile = start.toml

\* C22: whatever toolchain.toml records, a run extracts the archive into
\* <toolchain root>/<prefix><effective version> and runs its build commands
\* in that directory (or in the source directory below it).
InstallDirFromVersion ==
  /\ Did("extract") => \A loc \in written : IsUnder(loc, InstallDir)
  /\ (Did("configure") \/ Did("build"))
     => IsUnder(Resolve(cfg.buildDir), InstallDir)

\* C23: the Executable that a run records is a relative path that begins
\* with <prefix><effective version>, and it is recorded with the effective
\* version.
RecordedPathForm ==
  Did("record")
  => LET entry == Entry(tomlFile, tool)
     IN /\ ~entry.Executable.abs
        /\ Len(entry.Executable.segs) > 1
        /\ entry.Executable.segs[1] = <<VersionedDirPrefix(tool), cfg.version>>
        /\ entry.Version = cfg.version

\* C24: a run of BootstrapBpfAsm calls make only when the Bison and the
\* Flex executables that it resolved are files that exist, and a run that
\* resolves no Bison or no Flex executable ends with an error before the
\* download.
DependenciesBeforeBuild ==
  (tool = "bpfasm" /\ runs > 0 /\ cfg # NoToolConfig)
  => /\ Did("build")
        => /\ fileExistsAtPath(start.files, cfg.bisonExecutable)
           /\ fileExistsAtPath(start.files, cfg.flexExecutable)
     /\ (cfg.bisonExecutable = EmptyPath \/ cfg.flexExecutable = EmptyPath)
        => /\ pc = "idle"
           /\ result.status = "error"
           /\ trace = <<>>

\* C26: a run that finds no toolchain.toml goes on as with an empty
\* registry: BuildConfiguration does not fail on the missing file, the
\* tool's configuration shows nothing installed, and a recording step
\* writes a registry that holds the tool's entry and nothing else.
MissingRegistryIsEmpty ==
  (runs > 0 /\ ~start.toml.exists)
  => /\ result.status # "panic"
     /\ cfg # NoToolConfig
        => /\ cfg.toolchainExecutable = EmptyPath
           /\ cfg.toolchainVersion = ""
     /\ Did("record")
        => /\ Entry(tomlFile, tool).present
           /\ \A u \in RegTools \ {tool} : ~Entry(tomlFile, u).present

\* The extraction of the previous run stopped at an entry of the archive and
\* left files of the tool in the toolchain directory; the run that followed
\* was given the same configuration and nothing was removed in between.
AfterTruncatedExtraction ==
  /\ Finished
  /\ runs >= 2
  /\ configFile = prev.configFile
  /\ start.lost = {}
  /\ \E i \in DOMAIN prev.trace : prev.trace[i] = "extract failed"
  /\ InstalledFiles(tool, start.files) # {}

UnderLinuxSubtree(entry) ==
  /\ Len(entry.name) >= (IF entry.type = "dir" THEN 3 ELSE 4)
  /\ entry.name[1] = TarDir("bpfasm", cfg.version)
  /\ entry.name[2] = N("tools")
  /\ entry.name[3] \in {N("bpf"), N("build"), N("scripts")}

\* The name is that of a directory above one of the three.
AboveLinuxSubtree(entry) ==
  \/ entry.name = <<TarDir("bpfasm", cfg.version)>>
  \/ entry.name = <<TarDir("bpfasm", cfg.version), N("tools")>>

\* C30: of the kernel's archive, extractTar creates a regular file only if
\* its name lies under linux-<version>/tools/bpf/, tools/build/ or
\* tools/scripts/, and a directory only if it lies under one of them or is
\* above one of them; what it creates is the name without its first
\* component, below <toolchainDir>/bpf_asm-<version>.
KernelFilterThreeSubtrees ==
  tool = "bpfasm"
  => \A i \in DOMAIN trace :
       trace[i] = "written"
       => LET entry == start.archive[i]
          IN /\ entry.type = "reg" => UnderLinuxSubtree(entry)
             /\ entry.type = "dir"
                => UnderLinuxSubtree(entry) \/ AboveLinuxSubtree(entry)
             /\ ExtractedTo(entry) = InstallDir \o Tail(entry.name)

\* The step leaves the file system, the result and the position of the
\* extraction as they were.
NothingWritten ==
  /\ UNCHANGED <<files, dirs, written, mtime, dirTimes, result>>
  /\ pc' = "extract"

\* C33: an entry that is a symbolic link or a PAX global header is passed
\* over, without an error and without writing anything; a directory or a
\* regular file that the filter accepts is created or the extraction
\* returns the error of creating it; an entry of any other type makes the
\* extraction return an error.
EntryTypeHandling ==
  [][(pc = "extract" /\ pending # <<>>)
     => LET entry == Head(pending)
        IN /\ entry.type \in {"symlink", "xglobal"} => NothingWritten
           /\ (entry.type \in {"dir", "reg"} /\ filter(tool, cfg, entry))
              => \/ ExtractedTo(entry) \in files' \cup dirs'
                 \/ result'.status = "error"
           /\ entry.type \notin {"dir", "reg", "symlink", "xglobal"}
              => /\ pc' = "idle"
                 /\ result' = Failed("unexpected type")
                 /\ UNCHANGED <<files, dirs, written>>]_vars

\* An extraction has passed over a symbolic link and a global header,
\* created the directory that followed them, and returned without error.
EntryTypeHandlingWitness ==
  /\ pc = "idle"
  /\ result = Ok
  /\ Len(start.archive) = 3
  /\ start.archive[1].type = "symlink"
  /\ start.archive[2].type = "xglobal"
  /\ trace = <<"ignored", "ignored", "written">>

\* C34: whatever config.toml and toolchain.toml hold, a missing registry
\* or a registry without a [go] table together with no [build-tool.go]
\* Executable included, BuildConfiguration returns a runtime configuration
\* or an error: it does not dereference the entry of a tool that the
\* registry lacks.
BuildConfigurationTotal ==
  runs > 0
  => BuildConfiguration(tool, ToolChainDir, configFile, downloadsFile,
                        start.toml).err # "panic"

\* C35: when downloadUrlToDir has returned an error (the request failed,
\* the status was not 200, or the copy of the body broke off), the download
\* directory holds no "download-*" temporary file, so that failed runs do
\* not accumulate them.
FailedDownloadLeavesNoTempFile ==
  (Finished /\ trace = <<"download">> /\ result.status = "error")
  => tmpFiles = 0

(***************************************************************************)
(* Properties of the recording steps (SpecRegistry).                       *)
(***************************************************************************)
\* Every tool has finished its recording step.
AllRecorded == \A w \in start.writers : pc[w] = "done"

\* The recording steps ran one after another: each read is followed at
\* once by the create and the encode of the same tool.
OneAfterAnother ==
  \A i \in DOMAIN trace :
    trace[i][2] = "read"
    => /\ i + 2 <= Len(trace)
       /\ trace[i + 1] = <<trace[i][1], "create">>
       /\ trace[i + 2] = <<trace[i][1], "encode">>

\* C25: when the recording steps of several tools have run one after
\* another, in whatever order, toolchain.toml holds the entry that each of
\* them wrote and, for every other tool, the entry that it held before.
SequentialKeepsAll ==
  (AllRecorded /\ OneAfterAnother)
  => /\ \A w \in start.writers : Entry(tomlFile, w) = start.entry[w]
     /\ \A u \in RegTools \ start.writers :
          Entry(tomlFile, u) = Entry(start.toml, u)

\* Two tools have recorded one after the other in a registry that held the
\* [go] table and the entry of a third tool, and both are still there.
SequentialKeepsAllWitness ==
  /\ AllRecorded
  /\ OneAfterAnother
  /\ Entry(start.toml, "go").present
  /\ Entry(tomlFile, "go") = Entry(start.toml, "go")
  /\ \E u \in Tools \ start.writers :
       /\ Entry(start.toml, u).present
       /\ Entry(tomlFile, u) = Entry(start.toml, u)
  /\ \E w \in start.writers : Entry(tomlFile, w) # Entry(start.toml, w)

\* The place in the trace of a step that a tool has taken.
StepOf(w, step) == CHOOSE i \in DOMAIN trace : trace[i] = <<w, step>>

\* The tool whose encoding came last.
LastWriter == trace[Len(trace)][1]

\* The tool read the file between the os.Create and the encoding of another.
ReadTruncated(w) ==
  /\ StepOf(w, "read") > 1
  /\ trace[StepOf(w, "read") - 1][2] = "create"

\* C29: no lock is taken, so when every tool has recorded, toolchain.toml is
\* the registry that the last writer held in memory.  The entry of a tool
\* that encoded after the last writer had read is not in it: the file holds
\* for that tool what it held before, or nothing.  If the last writer read
\* the file while another had truncated it, the file holds no entry but the
\* last writer's.
InterleavedRecordingLosesEntry ==
  AllRecorded
  => /\ tomlFile = WriteToolchainToml(cfg[LastWriter])
     /\ \A a \in start.writers \ {LastWriter} :
          StepOf(a, "encode") > StepOf(LastWriter, "read")
          => Entry(tomlFile, a) \in {Entry(start.toml, a),
                                     NewToolchainTomlTopLevel[a]}
     /\ ReadTruncated(LastWriter)
        => \A u \in RegTools \ {LastWriter} : ~Entry(tomlFile, u).present

\* Two tools have read the registry before either wrote it, both have
\* recorded, and the entry of the first to write is not in the file.
InterleavedRecordingLosesEntryWitness ==
  /\ AllRecorded
  /\ trace[1][2] = "read"
  /\ trace[2][2] = "read"
  /\ \E a \in start.writers :
       /\ a # LastWriter
       /\ ~Entry(tomlFile, a).present
       /\ Entry(tomlFile, LastWriter) = start.entry[LastWriter]

(***************************************************************************)
(* Properties of the code generation (SpecGenerate).                       *)
(***************************************************************************)
\* One of the two commands exits with an error on the file.
SchemaFails(schema) == ~schema.capnp \/ ~schema.plugin

\* C27: when GenerateCapnp has returned, every globbed schema file has been
\* processed; for each file on which the compiler or the plugin failed, no
\* Go code was generated and the returned messages hold a message that
\* names the file.
PerFileFailureContinues ==
  pc = "idle"
  => /\ Len(trace) = Len(start.schemas)
     /\ \A i \in DOMAIN start.schemas :
          SchemaFails(start.schemas[i])
          => /\ i \notin written
             /\ \E k \in DOMAIN result.messages : result.messages[k][2] = i

(***************************************************************************)
(* Properties of the commands (SpecCommands).                              *)
(***************************************************************************)
\* The executable resolved for a dependency: the user's, else the registry's.
Resolved(rc) == IF rc.Executable # EmptyPath THEN rc.Executable ELSE rc.toolchainExecutable

\* The command has an argument that sets the variable.
Passes(variable) ==
  \E i \in DOMAIN result.Args : result.Args[i][1] = variable

\* C31: make is given LEX=<flex> exactly when the resolved Flex executable
\* is not the bare name flex, YACC=<bison> exactly when the resolved Bison
\* executable is not the bare name bison, each with the executable resolved
\* for this run, and the target bpf_asm as its last argument.
MakeArguments ==
  Did("make")
  => /\ Passes("LEX") <=> Resolved(start.Flex) # Bare("flex")
     /\ Passes("YACC") <=> Resolved(start.Bison) # Bare("bison")
     /\ \A i \in DOMAIN result.Args :
          /\ result.Args[i][1] = "LEX" => result.Args[i] = <<"LEX", Resolved(start.Flex)>>
          /\ result.Args[i][1] = "YACC" => result.Args[i] = <<"YACC", Resolved(start.Bison)>>
     /\ result.Args[Len(result.Args)] = Word("bpf_asm")

\* make has run with the bare name flex, so without LEX, and with a Bison
\* of the registry, so with YACC.
MakeArgumentsWitness ==
  /\ Did("make")
  /\ start.Flex.Executable = Bare("flex")
  /\ start.Bison.Executable = EmptyPath
  /\ result.Args = <<Word("make"), <<"YACC", start.Bison.toolchainExecutable>>,
                    Word("bpf_asm")>>

\* The number of entries of an environment list that set the variable.
EntriesFor(env, name) == Cardinality({i \in DOMAIN env : env[i][1] = name})

\* The list holds one GOPATH entry, that of the configuration, none with
\* another value, and each other variable of the build-tool's environment
\* once, with its value.
IsolatedIn(env) ==
  /\ EntriesFor(env, "GOPATH") = 1
  /\ \A i \in DOMAIN env : env[i][1] = "GOPATH" => env[i][2] = cfg.goPath
  /\ \A k \in DOMAIN start.environ :
       start.environ[k][1] # "GOPATH"
       => /\ EntriesFor(env, start.environ[k][1]) = 1
          /\ \E i \in DOMAIN env : env[i] = start.environ[k]
  /\ \A i \in DOMAIN env :
       env[i][1] # "GOPATH" => \E k \in DOMAIN start.environ : start.environ[k] = env[i]

ScriptSucceeded == pc = "idle" /\ result = Exit(0)

\* C36: when the script has completed, toolchain.toml holds a [go] table
\* with the executable go-<go_version>/bin/go and the version that the
\* script has just installed, also when the file existed before the run.
ScriptRecordsGo ==
  ScriptSucceeded
  => Entry(tomlFile, "go") = ToolchainTomlTool(GoExecutableFile, "1.25.3")

\* The places in the trace of the waits, and the delay of the k-th.
Waits == {i \in DOMAIN trace : trace[i][1] = "wait_delay"}

WaitsBefore(i) == Cardinality({j \in Waits : j < i})

\* C37: curl is attempted again only after the operator has answered yes
\* and the script has waited; the k-th wait lasts k seconds, and 5 seconds
\* from the fifth on; when the operator answers no, the file at the cache
\* path is removed and the script exits with status 18, without checking
\* the SHA-256 or extracting.
InteractiveRetry ==
  /\ \A i \in DOMAIN trace :
       (trace[i] = Step("curl") /\ \E j \in 1..(i - 1) : trace[j] = Step("curl"))
       => /\ trace[i - 1][1] = "wait_delay"
          /\ trace[i - 2] = Step("yes")
  /\ \A i \in Waits :
       /\ trace[i][2] = (IF WaitsBefore(i) + 1 > max_delay THEN max_delay
                         ELSE WaitsBefore(i) + 1)
       /\ trace[i][2] <= max_delay
       /\ trace[i - 1] = Step("yes")
  /\ Did(Step("no"))
     => /\ pc = "idle"
        /\ result = Exit(18)
        /\ cfg.downloaded = "absent"
        /\ ~Did(Step("verify_sha256"))
        /\ ~Did(Step("extract_go"))
        /\ tomlFile = start.toml

\* The operator has asked six times for another attempt, the script has
\* waited 1, 2, 3, 4, 5 and 5 seconds, and the operator has then answered no.
InteractiveRetryWitness ==
  /\ Did(Step("no"))
  /\ Cardinality(Waits) = 6
  /\ \E i \in Waits : WaitsBefore(i) = 5 /\ trace[i][2] = max_delay
  /\ result = Exit(18)

(***************************************************************************)
(* Properties of runJobs (SpecJobs).                                       *)
(***************************************************************************)
\* Every goroutine has completed its send.
AllDelivered == \A j \in DOMAIN start.jobs : pc.job[j] = "done"

\* The jobs whose function returns an error.
FailedJobs == {j \in DOMAIN start.jobs : start.jobs[j] = "error"}

\* What holds in every state of runJobs.
RunJobsInOrder ==
  /\ pc.main # "spawn" => \A j \in DOMAIN start.jobs : pc.job[j] # "unspawned"
  /\ pc.main \in {"check", "returned", "exited"} => AllDelivered
  /\ pc.main = "exited"
     => /\ result.status = "exit"
        /\ result.job \in FailedJobs
        /\ \A j \in FailedJobs : result.job <= j
  /\ pc.main = "returned" => (FailedJobs = {} /\ result = Ok)
  /\ \A j \in DOMAIN start.jobs :
       Cardinality({i \in DOMAIN trace : trace[i] = <<"receive", j>>}) <= 1

\* C38: runJobs starts every job before it receives a result, receives the
\* result of every job before it reports a failure, ends the process on the
\* first error in job order, and returns only when every job has finished
\* without error; whatever the interleaving, every goroutine completes its
\* one send and runJobs comes to its end.
RunJobsWaitsForAll ==
  /\ []RunJobsInOrder
  /\ <>(pc.main \in {"returned", "exited"} /\ AllDelivered)

\* The second and the third job have failed, the third before the others
\* had returned; the process has ended on the error of the second, after
\* all three had delivered their results.
RunJobsWaitsForAllWitness ==
  /\ pc.main = "exited"
  /\ start.jobs = <<"nil", "error", "error">>
  /\ result.job = 2
  /\ AllDelivered
  /\ \E i \in DOMAIN trace :
       /\ trace[i] = <<"return", 3>>
       /\ \A k \in 1..i : trace[k] # <<"return", 1>> /\ trace[k] # <<"return", 2>>
====
